---- MODULE Spec2Model ----
(***************************************************************************)
(* Session core (BiometricAuthCore) and its adapter selection, the         *)
(* Capacitor adapter and the iOS native plugin, the error mapping, and     *)
(* the web plugin and WebAdapter with their credential id stores, of       *)
(* capacitor-biometric-authentication.                                     *)
(*                                                                         *)
(* Time is kept in whole seconds: Date.now() is now, and a delay or a      *)
(* duration of d * 1000 ms is d.                                           *)
(* JavaScript "undefined"/"null" is 0 for numbers and handles and "none"   *)
(* for strings.                                                            *)
(***************************************************************************)
EXTENDS Integers, Sequences, FiniteSets, Bags, TLC

VARIABLES
    now,              \* wall clock, seconds
    config,           \* BiometricAuthCore.config
    sessionTimeoutId, \* BiometricAuthCore.sessionTimeoutId (0 = null)
    timers,           \* timers pending in the JavaScript runtime
    currentAdapter,   \* BiometricAuthCore.currentAdapter ("none" = null)
    platform,         \* platformDetector.detect().name
    initPending,      \* initialize() is suspended in loadAdapter's import
    state,            \* BiometricAuthCore.state
    subscribers,      \* BiometricAuthCore.subscribers, in insertion order
    inflight,         \* authenticate() calls awaiting the adapter
    deleting,         \* deleteCredentials() calls awaiting the adapter
    nextSessionId,    \* next session id an adapter will generate
    ret,              \* outcome of the latest step, as its caller sees it
    failedAttempts,   \* iOS plugin: failedAttempts
    lockoutEndTime,   \* iOS plugin: lockoutEndTime (0 = nil)
    maxAttempts,      \* iOS plugin: maxAttempts
    lockoutDuration,  \* iOS plugin: lockoutDuration, seconds
    signCounts,       \* UserDefaults "sign_count_" + credentialId
    lastEmbedded,     \* sign counter of the latest assertion per credential
    nextCredId,       \* next credential id the plugin will generate
    prompts,          \* bag of evaluatePolicy calls awaiting the user
    pluginInitialized,\* CapacitorAdapter.pluginInitialized
    nativeRegistered, \* Capacitor.Plugins holds the native BiometricAuth
    nret,             \* outcome of the latest native step, as its caller sees it
    mapped,           \* the latest error mapping: its input and its result
    localStorage,     \* window.localStorage: the credential id lists
    authenticator,    \* the platform authenticator: credential -> its rp id
    nextWebCred,      \* next credential id the authenticator will create
    wcall,            \* the web platform call in flight
    wret,             \* result of the latest web call, as its caller sees it
    adapters,         \* BiometricAuthCore.adapters: key -> registered adapter
    customAdapters,   \* config.customAdapters: key -> adapter ("none" = absent)
    loads,            \* bag of loadAdapter calls suspended in a dynamic import
    held,             \* the state object a caller or observer was handed
    requiring,        \* bag of requireAuthentication/withAuthentication calls
                      \* awaiting the authenticate() they made
    rret,             \* outcome of the latest step of such a call
    codec,            \* the latest call of an encoding utility and its result
    reg,              \* the page's Capacitor, the load of index.ts and the
                      \* getPlugin calls of the CapacitorAdapter
    webPlugin         \* BiometricAuthWeb: config.sessionDuration and sessions;
                      \* ElectronAdapter: windowsHelloAvailable

coreVars == <<config, sessionTimeoutId, timers, currentAdapter, platform,
              initPending, state, subscribers, inflight, deleting,
              nextSessionId, ret>>

nativeState == <<failedAttempts, lockoutEndTime, maxAttempts, lockoutDuration,
                 signCounts, lastEmbedded, nextCredId, prompts,
                 pluginInitialized, nativeRegistered>>

nativeVars == <<nativeState, nret>>

errVars == <<mapped>>

webVars == <<localStorage, authenticator, nextWebCred, wcall, wret>>

loadVars == <<adapters, customAdapters, loads>>

snapVars == <<held>>

requireVars == <<requiring, rret>>

codecVars == <<codec>>

regVars == <<reg>>

pluginVars == <<webPlugin>>

\* the variables of the parts that follow the adapter selection
restVars == <<snapVars, requireVars, codecVars, regVars, pluginVars>>

\* what the session core leaves alone
nonCoreVars == <<nativeVars, errVars, webVars, loadVars, restVars>>

\* what the Capacitor adapter and the plugin leave alone
nonNativeVars == <<now, coreVars, errVars, webVars, loadVars, restVars>>

\* what the error mapping leaves alone
nonErrVars == <<now, coreVars, nativeVars, webVars, loadVars, restVars>>

\* what the web plugin and WebAdapter leave alone
nonWebVars == <<now, coreVars, nativeVars, errVars, loadVars, restVars>>

vars == <<now, coreVars, nativeVars, errVars, webVars, loadVars, restVars>>

---------------------------------------------------------------------------
(* Bounds *)

MaxTime == 5
MaxSessions == 2
MaxInFlight == 2
MaxCreds == 2
MaxPrompts == 2
MaxUses == 3
MaxHits == 1
MaxWebCreds == 2
MaxLoads == 2
MaxBytes == 3
MaxChars == 4
MaxLookups == 2
MaxWebSessions == 2

(* Program and platform constants *)

DefaultSessionDuration == 300
DefaultWebSessionDuration == 3600
FallbackSessionDuration == 3600
TimeoutMaxSeconds == 2147483
StartTime == 1
DefaultMaxAttempts == 3
DefaultLockoutDuration == 30

ConfigDurations == {0, 2, 2147484}
Platforms == {"web", "unknown"}
AdapterKeys == {"web", "other"}
Observers == {"obs", "obsThrows"}
AdapterOutcomes == {"success", "AUTHENTICATION_FAILED", "throws"}
ConfigMaxAttempts == {2}
ConfigLockoutDurations == {2}
PromptOutcomes == {"success", "userCancel", "systemCancel", "authenticationFailed"}
CredIds == 1..MaxCreds
Hostname == "app.example"
Rps == {"app.example", "other.example"}
UserNames == {"none", "alice", "default"}
PlatformOutcomes == {"credential", "null", "NotAllowedError"}
PromptKinds == [op : {"authenticate", "register"}, stored : 0..MaxCreds]

---------------------------------------------------------------------------
(* BiometricAuthState and updateState *)

InitialState ==
    [isAuthenticated |-> FALSE, sessionId |-> 0, lastAuthTime |-> 0,
     biometryType |-> "none", error |-> "none"]

\* a value handed to or returned by an encoding utility: kind is "undefined",
\* "ArrayBuffer", "Uint8Array", "string" or "throws"; bytes is the buffer's
\* content, offset and length are a view's byteOffset and byteLength, text
\* is a string's characters
Undefined == [kind |-> "undefined", bytes |-> <<>>, offset |-> 0, length |-> 0,
              text |-> <<>>]

\* a call of an encoding utility: its argument, the bytes the random source
\* gave it, its result, and whether the result is the argument itself
CodecCall(fn, arg, random, out, same) ==
    [fn |-> fn, arg |-> arg, random |-> random, out |-> out, same |-> same]

NoCodecCall == CodecCall("none", Undefined, <<>>, Undefined, FALSE)

\* the page: its platform and whether window.Capacitor is there, the version
\* of index.ts that was loaded and whether its microtask is still queued, the
\* registerPlugin('BiometricAuth', ...) calls made with and without a web
\* implementation, the adapter's capacitorPlugin, its getPlugin calls that
\* await the import, the number of calls made, and the latest outcome
Page(pf, cap, version, queued, web, proxy, plugin, lookups, calls, got) ==
    [platform |-> pf, capacitor |-> cap, version |-> version,
     queued |-> queued, webCalls |-> web, proxyCalls |-> proxy,
     capacitorPlugin |-> plugin, lookups |-> lookups, calls |-> calls,
     got |-> got]

NotLoaded == Page("web", FALSE, "none", FALSE, 0, 0, "null", 0, 0, "none")

\* what a requireAuthentication/withAuthentication step did: the value of its
\* isAuthenticated() check ("threw" if the check threw), whether the session
\* was past its duration at the check, the outcome of the authenticate() it
\* made ("none" if it made none), whether it invoked the callback, whether
\* it threw
RRet(op, checked, expired, auth, callback, threw) ==
    [op |-> op, checked |-> checked, expired |-> expired, auth |-> auth,
     callback |-> callback, threw |-> threw]

RIdle == RRet("none", "none", FALSE, "none", FALSE, FALSE)

\* no state object handed out yet
NotHeld == [by |-> "none", write |-> "none", obj |-> InitialState]

\* { ...this.state, ...newState }: a key present in the patch overwrites
Merge(s, patch) ==
    [f \in DOMAIN s |-> IF f \in DOMAIN patch THEN patch[f] ELSE s[f]]

Throws(o) == o = "obsThrows"

\* position of the first subscriber whose callback throws (Len + 1 if none)
FirstThrower(subs) ==
    IF \E i \in 1..Len(subs) : Throws(subs[i])
    THEN CHOOSE i \in 1..Len(subs) :
            Throws(subs[i]) /\ \A j \in 1..(i - 1) : ~Throws(subs[j])
    ELSE Len(subs) + 1

\* subscribers.forEach(callback => callback(this.getState())): the observers
\* called with the snapshot, up to and including the first one that throws
Notified(subs) ==
    {subs[i] : i \in {j \in 1..Len(subs) : j <= FirstThrower(subs)}}

NotifyThrows(subs) == FirstThrower(subs) <= Len(subs)

LogoutPatch ==
    [isAuthenticated |-> FALSE, sessionId |-> 0, lastAuthTime |-> 0,
     biometryType |-> "none", error |-> "none"]

SuccessPatch(sid) ==
    [isAuthenticated |-> TRUE, sessionId |-> sid, lastAuthTime |-> now,
     biometryType |-> "multiple", error |-> "none"]

FailurePatch(code) == [isAuthenticated |-> FALSE, error |-> code]

---------------------------------------------------------------------------
(* Timers *)

\* setTimeout: a delay above 2^31 - 1 ms does not fit the runtime's timer and
\* is replaced by 1 ms, which is no delay in whole seconds
TimeoutDelay(d) == IF d > TimeoutMaxSeconds THEN 0 ELSE d

ClearTimeout(tm, id) == {t \in tm : t.id # id}

ScheduleExpiryNoClear(tm, oldId, sid, dur) ==
    IF dur > 0
    THEN tm \cup {[id |-> sid, fireAt |-> now + TimeoutDelay(dur)]}
    ELSE tm

\* authenticate(), "Set up session timeout": the timers pending afterwards
ScheduleExpiry(tm, oldId, sid, dur) ==
    IF dur > 0
    THEN (IF oldId # 0 THEN ClearTimeout(tm, oldId) ELSE tm)
            \cup {[id |-> sid, fireAt |-> now + TimeoutDelay(dur)]}
    ELSE tm

ScheduleExpiryId(oldId, sid, dur) == IF dur > 0 THEN sid ELSE oldId

\* what a step hands back: the returned value or error code, whether it
\* threw, whether it ran logout(), the timer that fired, and the observers
\* called with the resulting state
Ret(op, value, code, threw, didLogout, timer, notified) ==
    [op |-> op, value |-> value, code |-> code, threw |-> threw,
     logout |-> didLogout, timer |-> timer, notified |-> notified]

\* what a native step hands back through CapacitorAdapter: value is
\* "pending" while the prompt is shown; nativeCode is the plugin's error code
\* and code the adapter's; prompted tells whether evaluatePolicy ran for the
\* call; outcome is what the platform reported; cred and signCount are the
\* credential and the counter embedded in the authenticator data
NRet(op, value, nativeCode, code, prompted, outcome, cred, signCount) ==
    [op |-> op, value |-> value, nativeCode |-> nativeCode, code |-> code,
     prompted |-> prompted, outcome |-> outcome, cred |-> cred,
     signCount |-> signCount]

NIdle == NRet("none", "none", "none", "none", FALSE, "none", 0, -1)

\* an error value: kind is what instanceof/typeof tell, name is error.name,
\* code is error.code, and hits is the set of the phrases of Patterns that
\* error.message.toLowerCase() includes
ErrorValue(kind, name, code, hits) ==
    [kind |-> kind, name |-> name, code |-> code, hits |-> hits]

\* no error value: the details field is missing
NoError == ErrorValue("absent", "none", "none", {})

BiometricError(code, details) == [code |-> code, details |-> details]

Mapping(path, pf, e, r) ==
    [path |-> path, platform |-> pf, error |-> e, code |-> r.code,
     details |-> r.details]

NoMapping ==
    Mapping("none", "none", NoError, BiometricError("none", NoError))

\* the localStorage key of a scope: the prefix and the user id, or the
\* prefix and "default" when the user id is missing
StorageKey(userId) ==
    IF userId # "none" THEN <<"biometric_auth_cred_", userId>>
    ELSE <<"biometric_auth_cred_", "default">>

\* the one key of WebAdapter
AdapterKey == <<"biometric_credential_ids", "">>

StorageKeys == {StorageKey(u) : u \in UserNames} \cup {AdapterKey}

\* a platform call in flight and the API call it belongs to: hadCreds tells
\* whether the store held credentials for the call's scope when it began,
\* calls is the set of platform calls made for it so far
WebCall(api, op, call, rpId, user, allow, hadCreds, getOpts, calls) ==
    [api |-> api, op |-> op, call |-> call, rpId |-> rpId, user |-> user,
     allow |-> allow, hadCreds |-> hadCreds, getOpts |-> getOpts,
     calls |-> calls]

NoCall == WebCall("none", "none", "none", "none", "none", <<>>, FALSE, FALSE, {})

\* the result of a finished API call
WebRet(c, value, code, cred) ==
    [api |-> c.api, op |-> c.op, rpId |-> c.rpId, user |-> c.user,
     allow |-> c.allow, hadCreds |-> c.hadCreds, getOpts |-> c.getOpts,
     calls |-> c.calls, value |-> value, code |-> code, cred |-> cred]

WIdle == WebRet(NoCall, "none", "none", 0)

\* BiometricAuthWeb and ElectronAdapter as constructed. sessions holds a
\* record per key of the sessions map, nextSession stands for the next value
\* of crypto.randomUUID(), api is the one of BiometricAuthWeb, WebAdapter
\* and ElectronAdapter the application calls; reported, issued and threw
\* tell what the latest step's availability check reported, the sessionId it
\* returned (0 = none) and whether it threw
NewPlugin ==
    [sessionDuration |-> DefaultWebSessionDuration, sessions |-> {},
     nextSession |-> 1, windowsHelloAvailable |-> "null", api |-> "none",
     reported |-> "none", issued |-> 0, threw |-> FALSE]

\* a step that returns nothing to a caller
Idle == Ret("none", "none", "none", FALSE, FALSE, 0, {})

---------------------------------------------------------------------------
(* Construction *)

\* loadAdapter's switch for the detected platform, customs aside
BuiltinAdapter(p) ==
    CASE p = "web" -> "WebAdapter"
      [] OTHER -> "none"

Init ==
    /\ now = StartTime
    /\ config = [sessionDuration |-> DefaultSessionDuration]
    /\ sessionTimeoutId = 0
    /\ timers = {}
    /\ currentAdapter = "none"
    /\ platform \in Platforms
    /\ initPending = (BuiltinAdapter(platform) # "none")
    /\ state = InitialState
    /\ subscribers = <<>>
    /\ inflight = 0
    /\ deleting = 0
    /\ nextSessionId = 1
    /\ ret = Idle
    /\ failedAttempts = 0
    /\ lockoutEndTime = 0
    /\ maxAttempts = DefaultMaxAttempts
    /\ lockoutDuration = DefaultLockoutDuration
    /\ signCounts = [c \in CredIds |-> 0]
    /\ lastEmbedded = [c \in CredIds |-> -1]
    /\ nextCredId = 1
    /\ prompts = EmptyBag
    /\ pluginInitialized = FALSE
    /\ nativeRegistered = FALSE
    /\ nret = NIdle
    /\ mapped = NoMapping
    /\ localStorage = [k \in StorageKeys |-> <<>>]
    /\ authenticator = [c \in 1..MaxWebCreds |-> "none"]
    /\ nextWebCred = 1
    /\ wcall = NoCall
    /\ wret = WIdle
    /\ adapters = [k \in AdapterKeys |-> "none"]
    /\ customAdapters = [k \in AdapterKeys |-> "none"]
    /\ loads = EmptyBag
    /\ held = NotHeld
    /\ requiring = EmptyBag
    /\ rret = RIdle
    /\ codec = NoCodecCall
    /\ reg = NotLoaded
    /\ webPlugin = NewPlugin

---------------------------------------------------------------------------
(* Adapter selection *)

\* initialize() resumes after loadAdapter's dynamic import
InitializeComplete ==
    /\ initPending
    /\ initPending' = FALSE
    /\ currentAdapter' = BuiltinAdapter(platform)
    /\ ret' = Idle
    /\ UNCHANGED <<now, config, sessionTimeoutId, timers, platform, state,
                   subscribers, inflight, deleting, nextSessionId>>
    /\ UNCHANGED nonCoreVars

Configure(d) ==
    /\ config' = [config EXCEPT !.sessionDuration = d]
    /\ ret' = Idle
    /\ UNCHANGED <<now, sessionTimeoutId, timers, currentAdapter, platform,
                   initPending, state, subscribers, inflight, deleting,
                   nextSessionId>>
    /\ UNCHANGED nonCoreVars

---------------------------------------------------------------------------
(* Observers *)

Subscribe(o) ==
    /\ subscribers' = IF \E i \in 1..Len(subscribers) : subscribers[i] = o
                      THEN subscribers ELSE Append(subscribers, o)
    /\ ret' = Idle
    /\ UNCHANGED <<now, config, sessionTimeoutId, timers, currentAdapter,
                   platform, initPending, state, inflight, deleting,
                   nextSessionId>>
    /\ UNCHANGED nonCoreVars

Unsubscribe(o) ==
    /\ subscribers' = SelectSeq(subscribers, LAMBDA x : x # o)
    /\ ret' = Idle
    /\ UNCHANGED <<now, config, sessionTimeoutId, timers, currentAdapter,
                   platform, initPending, state, inflight, deleting,
                   nextSessionId>>
    /\ UNCHANGED nonCoreVars

---------------------------------------------------------------------------
(* logout() *)

LogoutTimersNoClear(tm, id) == tm

\* logout(): the timers pending after "Clear session timeout"
LogoutTimers(tm, id) == IF id # 0 THEN ClearTimeout(tm, id) ELSE tm

\* the effect of one logout() call run against the timers tm
LogoutEffect(tm) ==
    /\ timers' = LogoutTimers(tm, sessionTimeoutId)
    /\ sessionTimeoutId' = 0
    /\ state' = Merge(state, LogoutPatch)

Logout ==
    /\ LogoutEffect(timers)
    /\ ret' = Ret("logout", "none", "none", NotifyThrows(subscribers), TRUE, 0,
                  Notified(subscribers))
    /\ UNCHANGED <<now, config, currentAdapter, platform, initPending,
                   subscribers, inflight, deleting, nextSessionId>>
    /\ UNCHANGED nonCoreVars

\* the callback given to setTimeout in authenticate()
TimerFire(t) ==
    /\ t \in timers
    /\ now >= t.fireAt
    /\ LogoutEffect(timers \ {t})
    /\ ret' = Ret("timer", "none", "none", NotifyThrows(subscribers), TRUE, t.id,
                  Notified(subscribers))
    /\ UNCHANGED <<now, config, currentAdapter, platform, initPending,
                   subscribers, inflight, deleting, nextSessionId>>
    /\ UNCHANGED nonCoreVars

---------------------------------------------------------------------------
(* isAuthenticated() *)

SessionExpiredNever(elapsed, sessionDuration) == FALSE

\* if (elapsedMs > sessionDurationMs)
SessionExpired(elapsed, sessionDuration) == elapsed > sessionDuration

IsAuthenticated ==
    /\ IF ~state.isAuthenticated \/ state.lastAuthTime = 0
       THEN /\ ret' = Ret("isAuthenticated", "false", "none", FALSE, FALSE, 0, {})
            /\ UNCHANGED <<sessionTimeoutId, timers, state>>
       ELSE IF /\ config.sessionDuration > 0
               /\ SessionExpired(now - state.lastAuthTime, config.sessionDuration)
       THEN /\ LogoutEffect(timers)
            /\ ret' = Ret("isAuthenticated",
                          IF NotifyThrows(subscribers) THEN "none" ELSE "false",
                          "none", NotifyThrows(subscribers), TRUE, 0,
                          Notified(subscribers))
       ELSE /\ ret' = Ret("isAuthenticated", "true", "none", FALSE, FALSE, 0, {})
            /\ UNCHANGED <<sessionTimeoutId, timers, state>>
    /\ UNCHANGED <<now, config, currentAdapter, platform, initPending,
                   subscribers, inflight, deleting, nextSessionId>>
    /\ UNCHANGED nonCoreVars

---------------------------------------------------------------------------
(* authenticate() *)

\* up to the await: no adapter returns at once, otherwise the adapter runs
AuthenticateStart ==
    /\ IF currentAdapter = "none"
       THEN /\ ret' = Ret("authenticate", "failure", "PLATFORM_NOT_SUPPORTED",
                          FALSE, FALSE, 0, {})
            /\ UNCHANGED inflight
       ELSE /\ inflight < MaxInFlight
            /\ inflight' = inflight + 1
            /\ ret' = Idle
    /\ UNCHANGED <<now, config, sessionTimeoutId, timers, currentAdapter,
                   platform, initPending, state, subscribers, deleting,
                   nextSessionId>>
    /\ UNCHANGED nonCoreVars

\* the state patch of the first updateState() after the adapter settled
OutcomePatch(outcome, sid) ==
    CASE outcome = "success" -> SuccessPatch(sid)
      [] outcome = "throws" -> FailurePatch("UNKNOWN_ERROR")
      [] OTHER -> FailurePatch(outcome)

\* the continuation of authenticate() once the adapter's promise settled
AuthenticateComplete(outcome) ==
    /\ inflight > 0
    /\ inflight' = inflight - 1
    /\ outcome = "success" => nextSessionId <= MaxSessions
    /\ nextSessionId' = IF outcome = "success" THEN nextSessionId + 1
                                               ELSE nextSessionId
    /\ LET first == Merge(state, OutcomePatch(outcome, nextSessionId))
           caught == Merge(first, FailurePatch("UNKNOWN_ERROR"))
       IN  IF NotifyThrows(subscribers)
           THEN \* a callback threw: inside try the catch block updates the
                \* state again, and the second notification throws as well
                /\ state' = IF outcome = "throws" THEN first ELSE caught
                /\ ret' = Ret("authenticate", "none", "none", TRUE, FALSE, 0,
                              Notified(subscribers))
                /\ UNCHANGED <<sessionTimeoutId, timers>>
           ELSE /\ state' = first
                /\ IF outcome = "success"
                   THEN /\ timers' = ScheduleExpiry(timers, sessionTimeoutId,
                                        nextSessionId, config.sessionDuration)
                        /\ sessionTimeoutId' = ScheduleExpiryId(sessionTimeoutId,
                                        nextSessionId, config.sessionDuration)
                        /\ ret' = Ret("authenticate", "success", "none",
                                      FALSE, FALSE, 0, Notified(subscribers))
                   ELSE /\ UNCHANGED <<sessionTimeoutId, timers>>
                        /\ ret' = Ret("authenticate", "failure",
                                      IF outcome = "throws" THEN "UNKNOWN_ERROR"
                                                            ELSE outcome,
                                      FALSE, FALSE, 0, Notified(subscribers))
    /\ UNCHANGED <<now, config, currentAdapter, platform, initPending,
                   subscribers, deleting>>
    /\ UNCHANGED nonCoreVars

---------------------------------------------------------------------------
(* deleteCredentials() *)

DeleteCredentialsStart ==
    /\ IF currentAdapter = "none"
       THEN /\ ret' = Ret("deleteCredentials", "none", "none", TRUE, FALSE, 0, {})
            /\ UNCHANGED deleting
       ELSE /\ deleting = 0
            /\ deleting' = 1
            /\ ret' = Idle
    /\ UNCHANGED <<now, config, sessionTimeoutId, timers, currentAdapter,
                   platform, initPending, state, subscribers, inflight,
                   nextSessionId>>
    /\ UNCHANGED nonCoreVars

\* adapter.deleteCredentials() settled: logout() follows unless it rejected
DeleteCredentialsComplete(adapterOk) ==
    /\ deleting > 0
    /\ deleting' = deleting - 1
    /\ IF adapterOk
       THEN /\ LogoutEffect(timers)
            /\ ret' = Ret("deleteCredentials", "none", "none",
                          NotifyThrows(subscribers), TRUE, 0,
                          Notified(subscribers))
       ELSE /\ ret' = Ret("deleteCredentials", "none", "none", TRUE, FALSE, 0, {})
            /\ UNCHANGED <<sessionTimeoutId, timers, state>>
    /\ UNCHANGED <<now, config, currentAdapter, platform, initPending,
                   subscribers, inflight, nextSessionId>>
    /\ UNCHANGED nonCoreVars

---------------------------------------------------------------------------
(* The clock *)

Tick ==
    /\ now < MaxTime
    /\ now' = now + 1
    /\ ret' = Idle
    /\ UNCHANGED <<config, sessionTimeoutId, timers, currentAdapter, platform,
                   initPending, state, subscribers, inflight, deleting,
                   nextSessionId>>
    /\ nret' = NIdle
    /\ UNCHANGED <<nativeState, errVars, webVars, loadVars, restVars>>

---------------------------------------------------------------------------

Next ==
    \/ InitializeComplete
    \/ \E d \in ConfigDurations : Configure(d)
    \/ \E o \in Observers : Subscribe(o)
    \/ \E o \in Observers : Unsubscribe(o)
    \/ AuthenticateStart
    \/ \E outcome \in AdapterOutcomes : AuthenticateComplete(outcome)
    \/ DeleteCredentialsStart
    \/ \E adapterOk \in BOOLEAN : DeleteCredentialsComplete(adapterOk)
    \/ Logout
    \/ IsAuthenticated
    \/ \E t \in timers : TimerFire(t)
    \/ Tick

Spec == Init /\ [][Next]_vars

---------------------------------------------------------------------------
(* CapacitorAdapter and the iOS plugin (BiometricAuthPlugin) *)

\* CapacitorAdapter.mapError: the switch knows upper-case codes only
MapError(code) ==
    CASE code \in {"BIOMETRIC_UNAVAILABLE", "UNAVAILABLE"} -> "BIOMETRIC_UNAVAILABLE"
      [] code \in {"USER_CANCELLED", "CANCELLED", "USER_CANCEL"} -> "USER_CANCELLED"
      [] code \in {"AUTHENTICATION_FAILED", "FAILED"} -> "AUTHENTICATION_FAILED"
      [] code = "TIMEOUT" -> "TIMEOUT"
      [] code = "LOCKOUT" -> "LOCKOUT"
      [] code = "NOT_ENROLLED" -> "NOT_ENROLLED"
      [] OTHER -> "UNKNOWN_ERROR"

\* the code the caller of op receives: authenticate goes through
\* CapacitorAdapter.authenticate, which maps the plugin's error; register is
\* called on the plugin itself
AdapterCode(op, code) ==
    IF op = "authenticate" THEN MapError(code) ELSE code

\* the plugin's error code for what LocalAuthentication reported
IosErrorCode(outcome) ==
    CASE outcome = "userCancel" -> "userCancelled"
      [] outcome = "userFallback" -> "userCancelled"
      [] outcome = "systemCancel" -> "systemCancelled"
      [] outcome = "authenticationFailed" -> "authenticationFailed"
      [] outcome = "biometryLockout" -> "lockedOut"
      [] outcome = "biometryNotAvailable" -> "notAvailable"
      [] outcome = "biometryNotEnrolled" -> "notEnrolled"
      [] OTHER -> "unknown"

\* isLockedOut(): true while the lockout end lies in the future
IsLockedOut == lockoutEndTime # 0 /\ now < lockoutEndTime

\* handleFailedAttempt(): the counter after the failure
HandleFailedAttemptCount(n) ==
    IF n + 1 >= maxAttempts THEN 0 ELSE n + 1

\* handleFailedAttempt(): the lockout end after the failure
HandleFailedAttemptEnd(n, endTime) ==
    IF n + 1 >= maxAttempts THEN now + lockoutDuration ELSE endTime

GetAndIncrementSignCountStale(counts, cred) == counts

\* getAndIncrementSignCount(for:): the store after the call; the call
\* returns counts[cred]
GetAndIncrementSignCount(counts, cred) ==
    [counts EXCEPT ![cred] = @ + 1]

\* the number of successful prompts so far: the sum of the counters of the
\* credentials 1..n
RECURSIVE Uses(_, _)
Uses(counts, n) == IF n = 0 THEN 0 ELSE counts[n] + Uses(counts, n - 1)

\* Capacitor puts the native plugin into Capacitor.Plugins
PluginsRegistered ==
    /\ ~nativeRegistered
    /\ nativeRegistered' = TRUE
    /\ nret' = NIdle
    /\ UNCHANGED <<failedAttempts, lockoutEndTime, maxAttempts, lockoutDuration,
                   signCounts, lastEmbedded, nextCredId, prompts,
                   pluginInitialized>>
    /\ UNCHANGED nonNativeVars

\* the part of authenticate(_:) and register(_:) before the prompt: a call
\* made during a lockout resolves at once, any other call shows the prompt
PluginCall(op, stored) ==
    IF IsLockedOut
    THEN /\ nret' = NRet(op, "failure", "lockedOut", AdapterCode(op, "lockedOut"),
                         FALSE, "none", 0, -1)
         /\ UNCHANGED <<lockoutEndTime, prompts>>
    ELSE /\ BagCardinality(prompts) < MaxPrompts
         /\ lockoutEndTime' = 0
         /\ prompts' = prompts (+) SetToBag({[op |-> op, stored |-> stored]})
         /\ nret' = NRet(op, "pending", "none", "none", TRUE, "none", 0, -1)

\* CapacitorAdapter.authenticate up to the plugin's prompt; stored is
\* webAuthnOptions.get.storedCredentialId as the plugin receives it
CapacitorAuthenticate(stored) ==
    /\ stored \in 0..(nextCredId - 1)
    /\ IF ~nativeRegistered
       THEN \* getPlugin() throws and the catch maps the Error
            /\ nret' = NRet("authenticate", "failure", "none", MapError("none"),
                            FALSE, "none", 0, -1)
            /\ UNCHANGED <<lockoutEndTime, prompts, pluginInitialized>>
       ELSE /\ pluginInitialized' = TRUE
            /\ PluginCall("authenticate", stored)
    /\ UNCHANGED <<failedAttempts, maxAttempts, lockoutDuration, signCounts,
                   lastEmbedded, nextCredId, nativeRegistered>>
    /\ UNCHANGED nonNativeVars

\* the plugin's register(_:) up to the prompt
PluginRegister ==
    /\ nativeRegistered
    /\ PluginCall("register", 0)
    /\ UNCHANGED <<failedAttempts, maxAttempts, lockoutDuration, signCounts,
                   lastEmbedded, nextCredId, pluginInitialized,
                   nativeRegistered>>
    /\ UNCHANGED nonNativeVars

\* the credential a successful prompt is about: the stored one of an
\* assertion, else a fresh "mobile_" + UUID
PromptCredential(p) ==
    IF p.op = "authenticate" /\ p.stored # 0 THEN p.stored ELSE nextCredId

\* the completion handler of evaluatePolicy, run on the main queue
EvaluatePolicyComplete(p, outcome) ==
    /\ BagIn(p, prompts)
    /\ LET cred == PromptCredential(p)
       IN  /\ prompts' = prompts (-) SetToBag({p})
           /\ IF outcome = "success"
              THEN /\ cred <= MaxCreds
                   /\ Uses(signCounts, MaxCreds) < MaxUses
                   /\ failedAttempts' = 0
                   /\ lockoutEndTime' = 0
                   /\ nextCredId' = IF cred = nextCredId THEN nextCredId + 1
                                    ELSE nextCredId
                   /\ signCounts' = GetAndIncrementSignCount(signCounts, cred)
                   /\ lastEmbedded' = [lastEmbedded EXCEPT ![cred] = signCounts[cred]]
                   /\ nret' = NRet(p.op, "success", "none", "none", TRUE,
                                   outcome, cred, signCounts[cred])
              ELSE /\ failedAttempts' = HandleFailedAttemptCount(failedAttempts)
                   /\ lockoutEndTime' = HandleFailedAttemptEnd(failedAttempts,
                                                               lockoutEndTime)
                   /\ nret' = NRet(p.op, "failure", IosErrorCode(outcome),
                                   AdapterCode(p.op, IosErrorCode(outcome)), TRUE,
                                   outcome, 0, -1)
                   /\ UNCHANGED <<signCounts, lastEmbedded, nextCredId>>
    /\ UNCHANGED <<maxAttempts, lockoutDuration, pluginInitialized,
                   nativeRegistered>>
    /\ UNCHANGED nonNativeVars

\* the plugin's configure(_:) with maxAttempts and lockoutDuration
PluginConfigure(attempts, lockout) ==
    /\ nativeRegistered
    /\ maxAttempts' = attempts
    /\ lockoutDuration' = lockout
    /\ nret' = NIdle
    /\ UNCHANGED <<failedAttempts, lockoutEndTime, signCounts, lastEmbedded,
                   nextCredId, prompts, pluginInitialized, nativeRegistered>>
    /\ UNCHANGED nonNativeVars

NextNative ==
    \/ PluginsRegistered
    \/ \E stored \in 0..MaxCreds : CapacitorAuthenticate(stored)
    \/ PluginRegister
    \/ \E p \in PromptKinds, outcome \in PromptOutcomes :
           EvaluatePolicyComplete(p, outcome)
    \/ \E attempts \in ConfigMaxAttempts, lockout \in ConfigLockoutDurations :
           PluginConfigure(attempts, lockout)
    \/ Tick

SpecNative == Init /\ [][NextNative]_vars

---------------------------------------------------------------------------
(* Error mapping: utils/error-handler, CapacitorAdapter.mapError, the core's
   catch block and the web plugin's handleWebAuthnError *)

\* the lower-case phrases the mappers look for
Patterns ==
    {"cancelled", "canceled", "timeout", "timed out", "not available",
     "unavailable", "not supported", "not enrolled", "no biometrics",
     "locked out", "lockout", "user refused", "not configured", "not set up",
     "locked", "too many attempts", "user cancel", "passcode not set",
     "biometry not available", "biometry not enrolled", "biometry lockout",
     "user canceled", "hw not present", "hw unavailable", "negative button",
     "cancel", "abort"}

\* the BiometricPrompt error constants a message of the Android plugin may
\* carry
AndroidConstants ==
    {"ERROR_USER_CANCELED", "ERROR_NEGATIVE_BUTTON", "ERROR_NO_BIOMETRICS",
     "ERROR_HW_NOT_PRESENT", "ERROR_HW_UNAVAILABLE", "ERROR_LOCKOUT"}

\* String.prototype.toLowerCase on a constant
ToLowerCase(c) ==
    CASE c = "ERROR_USER_CANCELED" -> "error_user_canceled"
      [] c = "ERROR_NEGATIVE_BUTTON" -> "error_negative_button"
      [] c = "ERROR_NO_BIOMETRICS" -> "error_no_biometrics"
      [] c = "ERROR_HW_NOT_PRESENT" -> "error_hw_not_present"
      [] c = "ERROR_HW_UNAVAILABLE" -> "error_hw_unavailable"
      [] c = "ERROR_LOCKOUT" -> "error_lockout"
      [] OTHER -> c

\* what a lower-cased message may include: a phrase, or a constant
Phrases == Patterns \cup {ToLowerCase(c) : c \in AndroidConstants}

\* <<p, q>>: every text that includes q includes p
PartOf ==
    {<<"canceled", "error_user_canceled">>,
     <<"unavailable", "error_hw_unavailable">>,
     <<"lockout", "error_lockout">>,
     <<"not available", "biometry not available">>,
     <<"not enrolled", "biometry not enrolled">>,
     <<"lockout", "biometry lockout">>,
     <<"locked", "locked out">>,
     <<"user cancel", "user canceled">>,
     <<"canceled", "user canceled">>,
     <<"unavailable", "hw unavailable">>,
     <<"cancel", "cancelled">>,
     <<"cancel", "canceled">>,
     <<"cancel", "user cancel">>,
     <<"cancel", "user canceled">>,
     <<"cancel", "error_user_canceled">>}

Closure(h) == h \cup {p \in Phrases : \E q \in h : <<p, q>> \in PartOf}

RECURSIVE HitSets(_)
HitSets(n) ==
    IF n = 0 THEN {{}}
    ELSE HitSets(n - 1)
         \cup {Closure(h \cup {p}) : h \in HitSets(n - 1), p \in Phrases}

DOMNames ==
    {"NotAllowedError", "AbortError", "SecurityError", "InvalidStateError",
     "NotSupportedError", "TimeoutError", "ConstraintError", "DataError"}

\* error codes a plugin or a caller may put into error.code
PluginCodes ==
    {"userCancelled", "systemCancelled", "authenticationFailed", "lockedOut",
     "notAvailable", "notEnrolled", "timeout", "unknown",
     "USER_CANCELLED", "AUTHENTICATION_FAILED", "LOCKOUT", "NOT_ENROLLED",
     "TIMEOUT", "UNAVAILABLE"}

\* "unknown" is a platform mapNativeError has no block for
MapPlatforms == {"none", "windows", "electron", "ios", "android", "unknown"}

Errors ==
    {ErrorValue("DOMException", n, "none", h) :
         n \in DOMNames, h \in HitSets(MaxHits)}
    \cup {ErrorValue("Error", "Error", "none", h) : h \in HitSets(MaxHits)}
    \cup {ErrorValue("string", "none", "none", {})}
    \cup {ErrorValue("object", "none", c, {}) : c \in PluginCodes \cup {"none"}}

\* error instanceof Error; a DOMException is an Error
IsError(e) == e.kind \in {"DOMException", "Error"}

\* message.includes(pat) on the lower-cased message: a pattern with a capital
\* letter is in no set of hits
Includes(e, pat) == pat \in e.hits

MapDOMExceptionNoTimeout(e) ==
    CASE e.name \in {"NotAllowedError", "AbortError"} ->
           BiometricError("USER_CANCELLED", e)
      [] e.name \in {"SecurityError", "InvalidStateError", "ConstraintError",
                     "TimeoutError"} ->
           BiometricError("AUTHENTICATION_FAILED", e)
      [] e.name = "NotSupportedError" -> BiometricError("BIOMETRIC_UNAVAILABLE", e)
      [] OTHER -> BiometricError("UNKNOWN_ERROR", e)

\* switch (error.name)
MapDOMException(e) ==
    CASE e.name = "NotAllowedError" -> BiometricError("USER_CANCELLED", e)
      [] e.name = "AbortError" -> BiometricError("USER_CANCELLED", e)
      [] e.name = "SecurityError" -> BiometricError("AUTHENTICATION_FAILED", e)
      [] e.name = "InvalidStateError" -> BiometricError("AUTHENTICATION_FAILED", e)
      [] e.name = "NotSupportedError" -> BiometricError("BIOMETRIC_UNAVAILABLE", e)
      [] e.name = "TimeoutError" -> BiometricError("TIMEOUT", e)
      [] e.name = "ConstraintError" -> BiometricError("AUTHENTICATION_FAILED", e)
      [] OTHER -> BiometricError("UNKNOWN_ERROR", e)

MapGenericError(e) ==
    IF Includes(e, "cancelled") \/ Includes(e, "canceled")
    THEN BiometricError("USER_CANCELLED", e)
    ELSE IF Includes(e, "timeout") \/ Includes(e, "timed out")
    THEN BiometricError("TIMEOUT", e)
    ELSE IF Includes(e, "not available") \/ Includes(e, "unavailable")
    THEN BiometricError("BIOMETRIC_UNAVAILABLE", e)
    ELSE IF Includes(e, "not supported")
    THEN BiometricError("PLATFORM_NOT_SUPPORTED", e)
    ELSE IF Includes(e, "not enrolled") \/ Includes(e, "no biometrics")
    THEN BiometricError("NOT_ENROLLED", e)
    ELSE IF Includes(e, "locked out") \/ Includes(e, "lockout")
    THEN BiometricError("LOCKED_OUT", e)
    ELSE BiometricError("UNKNOWN_ERROR", e)

MapWebAuthnError(e) ==
    IF e.kind = "DOMException" THEN MapDOMException(e)
    ELSE IF IsError(e) THEN MapGenericError(e)
    ELSE BiometricError("UNKNOWN_ERROR", e)

\* mapNativeError's Windows/Electron block: the code, "none" when none fits
MapWindowsError(e) ==
    IF Includes(e, "cancelled") \/ Includes(e, "canceled")
       \/ Includes(e, "user refused")
    THEN "USER_CANCELLED"
    ELSE IF Includes(e, "not configured") \/ Includes(e, "not set up")
    THEN "NOT_ENROLLED"
    ELSE IF Includes(e, "not available") \/ Includes(e, "not supported")
    THEN "NOT_AVAILABLE"
    ELSE IF Includes(e, "locked") \/ Includes(e, "too many attempts")
    THEN "LOCKED_OUT"
    ELSE "none"

\* mapNativeError's iOS block
MapIosError(e) ==
    IF Includes(e, "user cancel") \/ Includes(e, "userCancel")
    THEN "USER_CANCELLED"
    ELSE IF Includes(e, "passcode not set") \/ Includes(e, "passcodeNotSet")
    THEN "NOT_ENROLLED"
    ELSE IF Includes(e, "biometry not available")
            \/ Includes(e, "biometryNotAvailable")
    THEN "NOT_AVAILABLE"
    ELSE IF Includes(e, "biometry not enrolled")
            \/ Includes(e, "biometryNotEnrolled")
    THEN "NOT_ENROLLED"
    ELSE IF Includes(e, "biometry lockout") \/ Includes(e, "biometryLockout")
    THEN "LOCKED_OUT"
    ELSE "none"

\* mapNativeError's Android block
MapAndroidError(e) ==
    IF Includes(e, "ERROR_USER_CANCELED") \/ Includes(e, "user canceled")
    THEN "USER_CANCELLED"
    ELSE IF Includes(e, "ERROR_NO_BIOMETRICS") \/ Includes(e, "no biometrics")
    THEN "NOT_ENROLLED"
    ELSE IF Includes(e, "ERROR_HW_NOT_PRESENT") \/ Includes(e, "hw not present")
    THEN "NOT_AVAILABLE"
    ELSE IF Includes(e, "ERROR_HW_UNAVAILABLE") \/ Includes(e, "hw unavailable")
    THEN "NOT_AVAILABLE"
    ELSE IF Includes(e, "ERROR_LOCKOUT") \/ Includes(e, "lockout")
    THEN "LOCKED_OUT"
    ELSE IF Includes(e, "ERROR_NEGATIVE_BUTTON") \/ Includes(e, "negative button")
    THEN "USER_CANCELLED"
    ELSE "none"

MapNativeError(e, pf) ==
    LET code == CASE pf \in {"windows", "electron"} -> MapWindowsError(e)
                  [] pf = "ios" -> MapIosError(e)
                  [] pf = "android" -> MapAndroidError(e)
                  [] OTHER -> "none"
    IN  IF code # "none" THEN BiometricError(code, e) ELSE MapGenericError(e)

\* createErrorResult(error, platform); platform "none" is undefined
CreateErrorResult(e, pf) ==
    IF pf # "none" /\ IsError(e) THEN MapNativeError(e, pf)
    ELSE MapWebAuthnError(e)

\* CapacitorAdapter.mapError on an error value
CapacitorMapError(e) == BiometricError(MapError(e.code), e)

\* BiometricAuthWeb.handleWebAuthnError: the result has no details field
HandleWebAuthnError(e) ==
    IF IsError(e) /\ e.name = "NotAllowedError"
    THEN BiometricError("userCancelled", NoError)
    ELSE IF IsError(e) /\ e.name = "NotSupportedError"
    THEN BiometricError("notAvailable", NoError)
    ELSE IF IsError(e) /\ e.name = "InvalidStateError"
    THEN BiometricError("invalidContext", NoError)
    ELSE IF IsError(e) /\ e.name = "SecurityError"
    THEN BiometricError("invalidContext", NoError)
    ELSE BiometricError("unknown", NoError)

\* Object.values(BiometricErrorCode)
BiometricErrorCodes ==
    {"AUTHENTICATION_FAILED", "USER_CANCELLED", "SYSTEM_CANCELLED",
     "NOT_AVAILABLE", "BIOMETRIC_UNAVAILABLE", "PERMISSION_DENIED",
     "LOCKED_OUT", "LOCKOUT", "INVALID_CONTEXT", "NOT_ENROLLED", "TIMEOUT",
     "PLATFORM_NOT_SUPPORTED", "UNKNOWN", "UNKNOWN_ERROR"}

\* errorCodeMapping[code], "none" when code is no key of it
ErrorCodeMapping(code) ==
    CASE code = "authenticationFailed" -> "AUTHENTICATION_FAILED"
      [] code = "userCancelled" -> "USER_CANCELLED"
      [] code = "systemCancelled" -> "SYSTEM_CANCELLED"
      [] code = "notAvailable" -> "NOT_AVAILABLE"
      [] code = "permissionDenied" -> "PERMISSION_DENIED"
      [] code = "lockedOut" -> "LOCKED_OUT"
      [] code = "invalidContext" -> "INVALID_CONTEXT"
      [] code = "notEnrolled" -> "NOT_ENROLLED"
      [] code = "timeout" -> "TIMEOUT"
      [] code = "unknown" -> "UNKNOWN"
      [] OTHER -> "none"

\* normalizeErrorCode(code)
NormalizeErrorCode(code) ==
    IF code \in BiometricErrorCodes THEN code
    ELSE IF ErrorCodeMapping(code) # "none" THEN ErrorCodeMapping(code)
    ELSE "UNKNOWN"

\* isUserCancellation(error)
IsUserCancellation(e) ==
    IF e.kind = "DOMException" THEN e.name \in {"NotAllowedError", "AbortError"}
    ELSE IF IsError(e) THEN Includes(e, "cancel") \/ Includes(e, "abort")
    ELSE FALSE

\* isTimeout(error)
IsTimeout(e) ==
    IF e.kind = "DOMException" THEN e.name = "TimeoutError"
    ELSE IF IsError(e) THEN Includes(e, "timeout") \/ Includes(e, "timed out")
    ELSE FALSE

\* what a classification helper returns, as the code of a mapping
Verdict(b) == BiometricError(IF b THEN "true" ELSE "false", NoError)

\* the catch block of BiometricAuthCore.authenticate
CoreCatch(e) == BiometricError("UNKNOWN_ERROR", e)

\* a platform call throws e, or a plugin resolves with the error e
Throw(e) ==
    /\ mapped = NoMapping
    /\ mapped' = Mapping("thrown", "none", e, BiometricError("none", NoError))
    /\ UNCHANGED nonErrVars

\* WebAdapter (platform undefined) or ElectronAdapter catches the error, or
\* a caller applies the helper
CreateErrorResultStep(pf) ==
    /\ mapped.path = "thrown"
    /\ mapped' = Mapping("createErrorResult", pf, mapped.error,
                         CreateErrorResult(mapped.error, pf))
    /\ UNCHANGED nonErrVars

\* CapacitorAdapter.authenticate maps the plugin's error or what it caught
CapacitorMapErrorStep ==
    /\ mapped.path = "thrown"
    /\ mapped' = Mapping("CapacitorAdapter.mapError", "none", mapped.error,
                         CapacitorMapError(mapped.error))
    /\ UNCHANGED nonErrVars

\* the web plugin catches the error
HandleWebAuthnErrorStep ==
    /\ mapped.path = "thrown"
    /\ mapped' = Mapping("handleWebAuthnError", "none", mapped.error,
                         HandleWebAuthnError(mapped.error))
    /\ UNCHANGED nonErrVars

\* the core catches what its adapter threw
CoreCatchStep ==
    /\ mapped.path = "thrown"
    /\ mapped' = Mapping("BiometricAuthCore.authenticate", "none",
                         mapped.error, CoreCatch(mapped.error))
    /\ UNCHANGED nonErrVars

\* a caller asks a classification helper about the error
IsUserCancellationStep ==
    /\ mapped.path = "thrown"
    /\ mapped' = Mapping("isUserCancellation", "none", mapped.error,
                         Verdict(IsUserCancellation(mapped.error)))
    /\ UNCHANGED nonErrVars

IsTimeoutStep ==
    /\ mapped.path = "thrown"
    /\ mapped' = Mapping("isTimeout", "none", mapped.error,
                         Verdict(IsTimeout(mapped.error)))
    /\ UNCHANGED nonErrVars

NextErrors ==
    \/ \E e \in Errors : Throw(e)
    \/ IsUserCancellationStep
    \/ IsTimeoutStep
    \/ \E pf \in MapPlatforms : CreateErrorResultStep(pf)
    \/ CapacitorMapErrorStep
    \/ HandleWebAuthnErrorStep
    \/ CoreCatchStep

SpecErrors == Init /\ [][NextErrors]_vars

---------------------------------------------------------------------------
(* Credential store and routing: the web plugin (BiometricAuthWeb), the
   helpers of utils/webauthn, and WebAdapter *)

\* getStoredCredentialIds(userId) on the storage st
GetStoredCredentialIds(st, userId) == st[StorageKey(userId)]

Has(ids, c) == \E i \in 1..Len(ids) : ids[i] = c

\* storeCredentialId and WebAdapter.saveCredentialId: the storage after the
\* call
StoreCredentialId(st, key, c) ==
    IF Has(st[key], c) THEN st ELSE [st EXCEPT ![key] = Append(@, c)]

\* options of authenticate()/register(): get is webAuthnOptions.get ("absent"
\* when missing, else its rpId); user and rp are
\* webAuthnOptions.create.user.name and .rp.id; save is saveCredentials
WebOptions ==
    [get : {"absent"} \cup Rps, user : UserNames,
     rp : {"none"} \cup Rps, save : BOOLEAN]

\* BiometricAuthWeb.register: the platform call it makes
RegisterCall(op, o, hadCreds) ==
    WebCall("plugin", op, "create",
            IF o.rp # "none" THEN o.rp ELSE Hostname, o.user, <<>>,
            hadCreds, o.get # "absent", {"create"})

\* the platform call BiometricAuthWeb.authenticate makes once biometrics are
\* available
AuthenticateCall(o) ==
    LET ids == GetStoredCredentialIds(localStorage, o.user)
    IN  IF o.get # "absent"
        THEN \* authenticateWithWebAuthnOptions
             WebCall("plugin", "authenticate", "get",
                     o.get, o.user, <<>>, Len(ids) > 0, TRUE, {"get"})
        ELSE IF Len(ids) = 0 /\ o.save
        THEN RegisterCall("authenticate", o, FALSE)
        ELSE IF Len(ids) > 0
        THEN \* authenticateWithCredentials
             WebCall("plugin", "authenticate", "get", Hostname, o.user,
                     ids, TRUE, FALSE, {"get"})
        ELSE RegisterCall("authenticate", o, FALSE)

\* BiometricAuthWeb.authenticate up to its platform call
WebAuthenticate(o) ==
    /\ wcall = NoCall
    /\ wcall' = AuthenticateCall(o)
    /\ wret' = WIdle
    /\ UNCHANGED <<localStorage, authenticator, nextWebCred>>
    /\ UNCHANGED nonWebVars

\* BiometricAuthWeb.register up to navigator.credentials.create
WebRegister(o) ==
    /\ wcall = NoCall
    /\ o.get = "absent"
    /\ wcall' = RegisterCall("register", o,
                             Len(GetStoredCredentialIds(localStorage, o.user)) > 0)
    /\ wret' = WIdle
    /\ UNCHANGED <<localStorage, authenticator, nextWebCred>>
    /\ UNCHANGED nonWebVars

\* WebAdapter.authenticate up to its first platform call: rp is
\* options.platform.web.rpId
AdapterCall(rp) ==
    LET ids == localStorage[AdapterKey]
        rpId == IF rp # "none" THEN rp ELSE Hostname
    IN  IF Len(ids) > 0
        THEN WebCall("adapter", "authenticate", "get", rpId, "none", ids,
                     TRUE, FALSE, {"get"})
        ELSE WebCall("adapter", "authenticate", "create", rpId, "none",
                     <<>>, FALSE, FALSE, {"create"})

\* WebAdapter.authenticate up to its first platform call
AdapterAuthenticate(rp) ==
    /\ wcall = NoCall
    /\ wcall' = AdapterCall(rp)
    /\ wret' = WIdle
    /\ UNCHANGED <<localStorage, authenticator, nextWebCred>>
    /\ UNCHANGED nonWebVars

\* the credentials the authenticator can assert for a get call
Assertable(c) ==
    {cred \in 1..(nextWebCred - 1) :
        /\ authenticator[cred] = c.rpId
        /\ (Len(c.allow) = 0 \/ Has(c.allow, cred))}

\* what the code awaiting navigator.credentials.get does when it settles
GetResolves(outcome) ==
    /\ wcall.call = "get"
    /\ IF outcome = "credential"
       THEN /\ \E cred \in Assertable(wcall) :
                 wret' = WebRet(wcall, "success", "none", cred)
            /\ wcall' = NoCall
       ELSE IF wcall.api = "adapter"
       THEN \* getExistingCredential returns null: createCredential is next
            /\ wcall' = [wcall EXCEPT !.call = "create", !.allow = <<>>,
                                      !.calls = @ \cup {"create"}]
            /\ wret' = WIdle
       ELSE /\ wret' = WebRet(wcall, "failure",
                              IF outcome = "null" THEN "authenticationFailed"
                              ELSE HandleWebAuthnError(
                                       ErrorValue("DOMException", outcome,
                                                  "none", {})).code, 0)
            /\ wcall' = NoCall
    /\ UNCHANGED <<localStorage, authenticator, nextWebCred>>

\* navigator.credentials.get settles
GetSettles(outcome) == GetResolves(outcome) /\ UNCHANGED nonWebVars

\* what the code awaiting navigator.credentials.create does when it settles
CreateResolves(outcome) ==
    /\ wcall.call = "create"
    /\ IF outcome = "credential"
       THEN /\ nextWebCred <= MaxWebCreds
            /\ authenticator' = [authenticator EXCEPT ![nextWebCred] = wcall.rpId]
            /\ nextWebCred' = nextWebCred + 1
            /\ localStorage' =
                 StoreCredentialId(localStorage,
                                   IF wcall.api = "adapter" THEN AdapterKey
                                   ELSE StorageKey(wcall.user), nextWebCred)
            /\ wret' = WebRet(wcall, "success", "none", nextWebCred)
       ELSE /\ wret' = WebRet(wcall, "failure",
                              IF wcall.api = "adapter" THEN "AUTHENTICATION_FAILED"
                              ELSE IF outcome = "null" THEN "authenticationFailed"
                              ELSE HandleWebAuthnError(
                                       ErrorValue("DOMException", outcome,
                                                  "none", {})).code, 0)
            /\ UNCHANGED <<localStorage, authenticator, nextWebCred>>
    /\ wcall' = NoCall

\* navigator.credentials.create settles
CreateSettles(outcome) == CreateResolves(outcome) /\ UNCHANGED nonWebVars

\* a caller uses the exported storeCredentialId(credentialId, userId)
StoreCredentialIdCall(c, userId) ==
    /\ localStorage' = StoreCredentialId(localStorage, StorageKey(userId), c)
    /\ wret' = [WIdle EXCEPT !.api = "plugin", !.op = "storeCredentialId",
                             !.user = userId, !.cred = c]
    /\ UNCHANGED <<authenticator, nextWebCred, wcall>>
    /\ UNCHANGED nonWebVars

NextWeb ==
    \/ \E o \in WebOptions : WebAuthenticate(o)
    \/ \E o \in WebOptions : WebRegister(o)
    \/ \E rp \in {"none"} \cup Rps : AdapterAuthenticate(rp)
    \/ \E outcome \in PlatformOutcomes : GetSettles(outcome)
    \/ \E outcome \in PlatformOutcomes : CreateSettles(outcome)

SpecWeb == Init /\ [][NextWeb]_vars

\* the keys the web plugin's deleteCredentials() removes: those that start
\* with "biometric_auth_cred_" and then those that start with
\* "biometric_auth_"
PluginKeys == {k \in StorageKeys : k[1] = "biometric_auth_cred_"}

\* localStorage after removeItem of every key in ks
RemoveItems(st, ks) == [k \in DOMAIN st |-> IF k \in ks THEN <<>> ELSE st[k]]

\* BiometricAuthWeb.deleteCredentials()
WebDeleteCredentials ==
    /\ localStorage' = RemoveItems(localStorage, PluginKeys)
    /\ wret' = [WIdle EXCEPT !.api = "plugin", !.op = "deleteCredentials"]
    /\ UNCHANGED <<authenticator, nextWebCred, wcall>>
    /\ UNCHANGED nonWebVars

\* WebAdapter.deleteCredentials()
AdapterDeleteCredentials ==
    /\ localStorage' = RemoveItems(localStorage, {AdapterKey})
    /\ wret' = [WIdle EXCEPT !.api = "adapter", !.op = "deleteCredentials"]
    /\ UNCHANGED <<authenticator, nextWebCred, wcall>>
    /\ UNCHANGED nonWebVars

NextDelete ==
    \/ NextWeb
    \/ WebDeleteCredentials
    \/ AdapterDeleteCredentials

SpecDelete == Init /\ [][NextDelete]_vars

\* WebAdapter.authenticate stores the id of the credential it created
SaveCredentialIdCall(c) ==
    /\ localStorage' = StoreCredentialId(localStorage, AdapterKey, c)
    /\ wret' = [WIdle EXCEPT !.api = "adapter", !.op = "saveCredentialId",
                             !.cred = c]
    /\ UNCHANGED <<authenticator, nextWebCred, wcall>>
    /\ UNCHANGED nonWebVars

NextStore ==
    \/ \E c \in 1..MaxWebCreds, u \in UserNames : StoreCredentialIdCall(c, u)
    \/ \E c \in 1..MaxWebCreds : SaveCredentialIdCall(c)

SpecStore == Init /\ [][NextStore]_vars

---------------------------------------------------------------------------
(* Custom adapters: registerAdapter(), configure() and loadAdapter() *)

\* the adapter object handed to registerAdapter(k, adapter)
RegisteredAdapter(k) == IF k = "web" THEN "registeredWeb" ELSE "registeredOther"

\* the adapter object handed over as config.customAdapters[k]
CustomAdapter(k) == IF k = "web" THEN "customWeb" ELSE "customOther"

\* the values configure() may receive as config.customAdapters
CustomAdapterMaps ==
    {[k \in AdapterKeys |-> IF k \in ks THEN CustomAdapter(k) ELSE "none"] :
        ks \in SUBSET AdapterKeys}

NoCustomAdapters == [k \in AdapterKeys |-> "none"]

\* platformDetector.detect().isWeb
IsWeb == platform = "web"

\* loadAdapter(k) up to its first await: the adapter it selects at once
LoadAdapterSelected(k, custom, registered) ==
    IF custom[k] # "none" THEN custom[k]
    ELSE IF registered[k] # "none" THEN registered[k]
    ELSE "none"

\* loadAdapter(k), customs aside: does it suspend in an import of a built-in
\* adapter? "web" imports WebAdapter; any other key here throws, and the
\* catch block falls back to importing WebAdapter on a web platform
LoadAdapterImports(k) == k = "web" \/ IsWeb

RegisterAdapter(k) ==
    /\ adapters' = [adapters EXCEPT ![k] = RegisteredAdapter(k)]
    /\ ret' = Idle
    /\ UNCHANGED <<now, config, sessionTimeoutId, timers, currentAdapter,
                   platform, initPending, state, subscribers, inflight,
                   deleting, nextSessionId>>
    /\ UNCHANGED <<customAdapters, loads>>
    /\ UNCHANGED <<nativeVars, errVars, webVars, restVars>>

\* configure({adapter, customAdapters}): a is "absent" when the adapter
\* field is left out, hasCustom tells whether customAdapters is given
ConfigureAdapter(a, hasCustom, custom) ==
    LET merged == IF hasCustom THEN custom ELSE customAdapters
        chosen == IF a \in AdapterKeys
                  THEN LoadAdapterSelected(a, merged, adapters) ELSE "none"
    IN  /\ customAdapters' = merged
        /\ IF a \notin AdapterKeys
           THEN UNCHANGED <<currentAdapter, loads>>
           ELSE IF chosen # "none"
           THEN /\ currentAdapter' = chosen
                /\ UNCHANGED loads
           ELSE IF LoadAdapterImports(a)
           THEN /\ BagCardinality(loads) < MaxLoads
                /\ loads' = loads (+) SetToBag({a})
                /\ UNCHANGED currentAdapter
           ELSE UNCHANGED <<currentAdapter, loads>>
        /\ ret' = Idle
        /\ UNCHANGED <<now, config, sessionTimeoutId, timers, platform,
                       initPending, state, subscribers, inflight, deleting,
                       nextSessionId>>
        /\ UNCHANGED adapters
        /\ UNCHANGED <<nativeVars, errVars, webVars, restVars>>

\* a dynamic import started by configure() resolved: loadAdapter resumes
LoadComplete(k) ==
    /\ BagIn(k, loads)
    /\ loads' = loads (-) SetToBag({k})
    /\ currentAdapter' = "WebAdapter"
    /\ ret' = Idle
    /\ UNCHANGED <<now, config, sessionTimeoutId, timers, platform,
                   initPending, state, subscribers, inflight, deleting,
                   nextSessionId>>
    /\ UNCHANGED <<adapters, customAdapters>>
    /\ UNCHANGED <<nativeVars, errVars, webVars, restVars>>

NextAdapter ==
    \/ InitializeComplete
    \/ \E k \in AdapterKeys : RegisterAdapter(k)
    \/ \E a \in {"absent", "auto"} \cup AdapterKeys, hasCustom \in BOOLEAN :
          \E custom \in IF hasCustom THEN CustomAdapterMaps
                                     ELSE {NoCustomAdapters} :
            ConfigureAdapter(a, hasCustom, custom)
    \/ \E k \in AdapterKeys : LoadComplete(k)

SpecAdapter == Init /\ [][NextAdapter]_vars

---------------------------------------------------------------------------
(* getState() and the object handed to observers *)

\* what the holder of a state object may do to it: nothing, assign one of
\* its fields, or assign a field of the error object it refers to
SnapshotWrites == {"none", "isAuthenticated", "sessionId", "error", "error.code"}

\* getState(): { ...this.state }, a new object whose fields hold the values
\* of this.state, the reference to the error object included
GetStateCopy(s) == [f \in DOMAIN s |-> s[f]]

\* the received object after the write w
Written(obj, w) ==
    CASE w = "isAuthenticated" -> [obj EXCEPT !.isAuthenticated = ~@]
      [] w = "sessionId" -> [obj EXCEPT !.sessionId = 0]
      [] w = "error" -> [obj EXCEPT !.error = "REPLACED"]
      [] w = "error.code" ->
            IF obj.error = "none" THEN obj ELSE [obj EXCEPT !.error = "TAMPERED"]
      [] OTHER -> obj

\* this.state after the holder of a copy of it did the write w: the copy's
\* own fields are apart from this.state, the error object is the same one
StateAfterWrite(s, w) ==
    IF w = "error.code" /\ s.error # "none" THEN [s EXCEPT !.error = "TAMPERED"]
                                           ELSE s

\* a caller takes getState() and writes to what it received
GetStateWrite(w) ==
    /\ held' = [by |-> "caller", write |-> w,
                obj |-> Written(GetStateCopy(state), w)]
    /\ state' = StateAfterWrite(state, w)
    /\ ret' = Idle
    /\ UNCHANGED <<now, config, sessionTimeoutId, timers, currentAdapter,
                   platform, initPending, subscribers, inflight, deleting,
                   nextSessionId>>
    /\ UNCHANGED <<nativeVars, errVars, webVars, loadVars, requireVars,
                   codecVars, regVars, pluginVars>>

\* an observer notified by the latest mutation writes to the object its
\* callback was handed
ObserverWrite(o, w) ==
    /\ o \in ret.notified
    /\ held' = [by |-> o, write |-> w,
                obj |-> Written(GetStateCopy(state), w)]
    /\ state' = StateAfterWrite(state, w)
    /\ ret' = Idle
    /\ UNCHANGED <<now, config, sessionTimeoutId, timers, currentAdapter,
                   platform, initPending, subscribers, inflight, deleting,
                   nextSessionId>>
    /\ UNCHANGED <<nativeVars, errVars, webVars, loadVars, requireVars,
                   codecVars, regVars, pluginVars>>

NextSnapshot ==
    \/ InitializeComplete
    \/ \E o \in Observers : Subscribe(o)
    \/ AuthenticateStart
    \/ \E outcome \in AdapterOutcomes : AuthenticateComplete(outcome)
    \/ Logout
    \/ \E w \in SnapshotWrites : GetStateWrite(w)
    \/ \E o \in Observers, w \in SnapshotWrites : ObserverWrite(o, w)

SpecSnapshot == Init /\ [][NextSnapshot]_vars

---------------------------------------------------------------------------
(* requireAuthentication() and withAuthentication() *)

RequireApis == {"requireAuthentication", "withAuthentication"}

\* what isAuthenticated() finds: no session, a session past its duration
\* (logout() runs), or a live session
CheckOutcome ==
    IF ~state.isAuthenticated \/ state.lastAuthTime = 0 THEN "false"
    ELSE IF /\ config.sessionDuration > 0
            /\ SessionExpired(now - state.lastAuthTime, config.sessionDuration)
    THEN "expired"
    ELSE "true"

\* if (!result.success) throw ...; return callback()
CallbackAfter(success) == success

\* the call up to its first await: isAuthenticated(), then either the
\* callback or authenticate() up to the adapter
RequireStart(api) ==
    /\ ret' = Idle
    /\ IF CheckOutcome = "true"
       THEN /\ rret' = RRet(api, "true", FALSE, "none", TRUE, FALSE)
            /\ UNCHANGED <<sessionTimeoutId, timers, state, requiring>>
       ELSE IF CheckOutcome = "expired" /\ NotifyThrows(subscribers)
       THEN \* logout() inside isAuthenticated() throws
            /\ LogoutEffect(timers)
            /\ rret' = RRet(api, "threw", TRUE, "none", FALSE, TRUE)
            /\ UNCHANGED requiring
       ELSE /\ IF CheckOutcome = "expired"
               THEN LogoutEffect(timers)
               ELSE UNCHANGED <<sessionTimeoutId, timers, state>>
            /\ IF currentAdapter = "none"
               THEN /\ rret' = RRet(api, "false", CheckOutcome = "expired",
                                    "failure", CallbackAfter(FALSE),
                                    ~CallbackAfter(FALSE))
                    /\ UNCHANGED requiring
               ELSE /\ BagCardinality(requiring) < MaxInFlight
                    /\ requiring' = requiring (+) SetToBag({api})
                    /\ rret' = RRet(api, "false", CheckOutcome = "expired",
                                    "pending", FALSE, FALSE)
    /\ UNCHANGED <<now, config, currentAdapter, platform, initPending,
                   subscribers, inflight, deleting, nextSessionId>>
    /\ UNCHANGED <<nativeVars, errVars, webVars, loadVars, snapVars,
                   codecVars, regVars, pluginVars>>

\* the adapter settled: authenticate() continues, then the call itself
RequireComplete(api, outcome) ==
    /\ BagIn(api, requiring)
    /\ requiring' = requiring (-) SetToBag({api})
    /\ outcome = "success" => nextSessionId <= MaxSessions
    /\ nextSessionId' = IF outcome = "success" THEN nextSessionId + 1
                                               ELSE nextSessionId
    /\ ret' = Idle
    /\ LET first == Merge(state, OutcomePatch(outcome, nextSessionId))
           caught == Merge(first, FailurePatch("UNKNOWN_ERROR"))
       IN  IF NotifyThrows(subscribers)
           THEN \* authenticate() rejects
                /\ state' = IF outcome = "throws" THEN first ELSE caught
                /\ rret' = RRet(api, "false", FALSE, "threw", FALSE, TRUE)
                /\ UNCHANGED <<sessionTimeoutId, timers>>
           ELSE /\ state' = first
                /\ IF outcome = "success"
                   THEN /\ timers' = ScheduleExpiry(timers, sessionTimeoutId,
                                        nextSessionId, config.sessionDuration)
                        /\ sessionTimeoutId' = ScheduleExpiryId(sessionTimeoutId,
                                        nextSessionId, config.sessionDuration)
                   ELSE UNCHANGED <<sessionTimeoutId, timers>>
                /\ rret' = RRet(api, "false", FALSE,
                                IF outcome = "success" THEN "success"
                                                       ELSE "failure",
                                CallbackAfter(outcome = "success"),
                                ~CallbackAfter(outcome = "success"))
    /\ UNCHANGED <<now, config, currentAdapter, platform, initPending,
                   subscribers, inflight, deleting>>
    /\ UNCHANGED <<nativeVars, errVars, webVars, loadVars, snapVars,
                   codecVars, regVars, pluginVars>>

NextRequire ==
    \/ InitializeComplete
    \/ \E d \in ConfigDurations : Configure(d)
    \/ \E o \in Observers : Subscribe(o)
    \/ \E t \in timers : TimerFire(t)
    \/ Tick
    \/ \E api \in RequireApis : RequireStart(api)
    \/ \E api \in RequireApis, outcome \in AdapterOutcomes :
          RequireComplete(api, outcome)

SpecRequire == Init /\ [][NextRequire]_vars

---------------------------------------------------------------------------
(* Encoding utilities (utils/encoding) over the platform's btoa and atob *)

\* the base64 alphabet: the character of the sextet v is Alphabet[v + 1]
Alphabet ==
    <<"A", "B", "C", "D", "E", "F", "G", "H", "I", "J", "K", "L", "M",
      "N", "O", "P", "Q", "R", "S", "T", "U", "V", "W", "X", "Y", "Z",
      "a", "b", "c", "d", "e", "f", "g", "h", "i", "j", "k", "l", "m",
      "n", "o", "p", "q", "r", "s", "t", "u", "v", "w", "x", "y", "z",
      "0", "1", "2", "3", "4", "5", "6", "7", "8", "9", "+", "/">>

IsAlphabetChar(c) == \E i \in 1..64 : Alphabet[i] = c

Sextet(c) == (CHOOSE i \in 1..64 : Alphabet[i] = c) - 1

\* the code unit of a character, as TextEncoder writes it for ASCII
CharCode(c) ==
    CASE c = "-" -> 45
      [] c = "_" -> 95
      [] c = "=" -> 61
      [] c = " " -> 32
      [] c = "!" -> 33
      [] c = "+" -> 43
      [] c = "/" -> 47
      [] OTHER -> LET v == Sextet(c)
                  IN  IF v < 26 THEN 65 + v
                      ELSE IF v < 52 THEN 97 + (v - 26)
                      ELSE 48 + (v - 52)

ArrayBufferValue(bytes) ==
    [kind |-> "ArrayBuffer", bytes |-> bytes, offset |-> 0,
     length |-> Len(bytes), text |-> <<>>]

\* new Uint8Array(buffer, offset, length)
ViewValue(bytes, offset, length) ==
    [kind |-> "Uint8Array", bytes |-> bytes, offset |-> offset,
     length |-> length, text |-> <<>>]

StringValue(text) ==
    [kind |-> "string", bytes |-> <<>>, offset |-> 0, length |-> 0,
     text |-> text]

\* the call threw
Thrown == [kind |-> "throws", bytes |-> <<>>, offset |-> 0, length |-> 0,
           text |-> <<>>]

\* the bytes a view shows
Viewed(v) == SubSeq(v.bytes, v.offset + 1, v.offset + v.length)

\* the bytes of an ArrayBuffer or of a view
BytesOf(d) == IF d.kind = "Uint8Array" THEN Viewed(d) ELSE d.bytes

\* String.prototype.replace(/from/g, to)
Replace(s, from, to) == [i \in 1..Len(s) |-> IF s[i] = from THEN to ELSE s[i]]

\* String.prototype.replace(/c/g, '')
Remove(s, c) == SelectSeq(s, LAMBDA x : x # c)

\* btoa: three bytes give four characters, a rest of one or two bytes is
\* filled with zero bits and padded with "="
RECURSIVE Btoa(_)
Btoa(b) ==
    IF Len(b) = 0 THEN <<>>
    ELSE IF Len(b) = 1
    THEN LET n == b[1] * 16
         IN  <<Alphabet[(n \div 64) + 1], Alphabet[(n % 64) + 1], "=", "=">>
    ELSE IF Len(b) = 2
    THEN LET n == (b[1] * 256 + b[2]) * 4
         IN  <<Alphabet[(n \div 4096) + 1], Alphabet[((n \div 64) % 64) + 1],
               Alphabet[(n % 64) + 1], "=">>
    ELSE LET n == b[1] * 65536 + b[2] * 256 + b[3]
         IN  <<Alphabet[(n \div 262144) + 1],
               Alphabet[((n \div 4096) % 64) + 1],
               Alphabet[((n \div 64) % 64) + 1],
               Alphabet[(n % 64) + 1]>> \o Btoa(SubSeq(b, 4, Len(b)))

\* the bytes of a string of alphabet characters: four characters give three
\* bytes, of a rest of two or three characters the surplus bits are dropped
RECURSIVE DecodeSextets(_)
DecodeSextets(s) ==
    IF Len(s) < 2 THEN <<>>
    ELSE IF Len(s) = 2
    THEN LET n == Sextet(s[1]) * 64 + Sextet(s[2])
         IN  <<n \div 16>>
    ELSE IF Len(s) = 3
    THEN LET n == Sextet(s[1]) * 4096 + Sextet(s[2]) * 64 + Sextet(s[3])
         IN  <<n \div 1024, (n \div 4) % 256>>
    ELSE LET n == Sextet(s[1]) * 262144 + Sextet(s[2]) * 4096
                  + Sextet(s[3]) * 64 + Sextet(s[4])
         IN  <<n \div 65536, (n \div 256) % 256, n % 256>>
             \o DecodeSextets(SubSeq(s, 5, Len(s)))

\* atob (forgiving-base64 decode): white space is removed, one or two
\* trailing "=" are removed from a length that is a multiple of four, and a
\* length of 1 modulo 4 or a character outside the alphabet throws
Atob(s) ==
    LET t == Remove(s, " ")
        n == Len(t)
        u == IF n > 0 /\ n % 4 = 0 /\ t[n] = "="
             THEN IF t[n - 1] = "=" THEN SubSeq(t, 1, n - 2)
                                    ELSE SubSeq(t, 1, n - 1)
             ELSE t
    IN  IF Len(u) % 4 = 1 \/ \E i \in 1..Len(u) : ~IsAlphabetChar(u[i])
        THEN Thrown
        ELSE ArrayBufferValue(DecodeSextets(u))

ArrayBufferToBase64(bytes) == Btoa(bytes)

ToURLAlphabetPadded(base64) == Replace(Replace(base64, "+", "-"), "/", "_")

\* .replace(/\+/g, '-').replace(/\//g, '_').replace(/=/g, '')
ToURLAlphabet(base64) ==
    Remove(Replace(Replace(base64, "+", "-"), "/", "_"), "=")

ArrayBufferToBase64URL(bytes) == ToURLAlphabet(ArrayBufferToBase64(bytes))

Base64ToArrayBuffer(base64) == Atob(base64)

ToStandardAlphabetKept(base64url) == base64url

\* .replace(/-/g, '+').replace(/_/g, '/')
ToStandardAlphabet(base64url) ==
    Replace(Replace(base64url, "-", "+"), "_", "/")

\* (4 - (base64.length % 4)) % 4
PaddingNeeded(len) == (4 - (len % 4)) % 4

Base64URLToArrayBuffer(base64url) ==
    LET base64 == ToStandardAlphabet(base64url)
    IN  Base64ToArrayBuffer(
            base64 \o [i \in 1..PaddingNeeded(Len(base64)) |-> "="])

Uint8ArrayToBase64URL(array) == ArrayBufferToBase64URL(Viewed(array))

Base64URLToUint8Array(base64url) ==
    LET r == Base64URLToArrayBuffer(base64url)
    IN  IF r.kind = "throws" THEN Thrown
        ELSE ViewValue(r.bytes, 0, Len(r.bytes))

\* new TextEncoder().encode(data)
Utf8(text) == [i \in 1..Len(text) |-> CharCode(text[i])]

ToArrayBuffer(data) ==
    IF data.kind = "undefined" \/ (data.kind = "string" /\ Len(data.text) = 0)
    THEN Undefined
    ELSE IF data.kind = "ArrayBuffer" THEN data
    ELSE IF data.kind = "Uint8Array" THEN ArrayBufferValue(Viewed(data))
    ELSE LET first == Base64URLToArrayBuffer(data.text)
             second == Base64ToArrayBuffer(data.text)
         IN  IF first.kind # "throws" THEN first
             ELSE IF second.kind # "throws" THEN second
             ELSE ArrayBufferValue(Utf8(data.text))

\* new Uint8Array(16) of generateSessionId()
SessionIdBytes == 16

\* generateChallenge(length = 32)
ChallengeBytes == 32

GenerateSessionId(random) == ArrayBufferToBase64URL(random)

\* /^[A-Za-z0-9_-]*$/
IsBase64URL(str) ==
    \A i \in 1..Len(str) :
        \/ IsAlphabetChar(str[i]) /\ str[i] \notin {"+", "/"}
        \/ str[i] \in {"-", "_"}

\* toArrayBuffer(userOptions?.challenge) || generateChallenge()
MergeChallenge(challenge, random) ==
    LET given == ToArrayBuffer(challenge)
    IN  IF given.kind = "undefined" THEN ArrayBufferValue(random) ELSE given

\* the inputs
ByteValues == {0, 1, 251, 255}

ByteSeqs == UNION {[1..n -> ByteValues] : n \in 0..MaxBytes}

Chars == {"A", "1", "-", "_", "+", "=", " ", "!"}

Texts == UNION {[1..n -> Chars] : n \in 0..MaxChars}

Views ==
    {ViewValue(x[1], x[2], x[3]) :
        x \in {y \in ByteSeqs \X (0..MaxBytes) \X (0..MaxBytes) :
                  y[2] + y[3] <= Len(y[1])}}

\* what crypto.getRandomValues may write into an array of n bytes
Randoms(n) ==
    {[i \in 1..n |-> IF i % 2 = 1 THEN v ELSE w] : v, w \in ByteValues}

ChallengeInputs ==
    {Undefined} \cup {ArrayBufferValue(b) : b \in {<<>>, <<251>>}}
    \cup {StringValue(t) : t \in {u \in Texts : Len(u) <= 2}}

\* the decoder that undoes an encoder
Inverse(fn) ==
    CASE fn = "arrayBufferToBase64" -> "base64ToArrayBuffer"
      [] fn = "arrayBufferToBase64URL" -> "base64URLToArrayBuffer"
      [] fn = "uint8ArrayToBase64URL" -> "base64URLToUint8Array"
      [] OTHER -> "none"

Decode(fn, text) ==
    CASE fn = "base64ToArrayBuffer" -> Base64ToArrayBuffer(text)
      [] fn = "base64URLToArrayBuffer" -> Base64URLToArrayBuffer(text)
      [] OTHER -> Base64URLToUint8Array(text)

Decoders ==
    {"base64ToArrayBuffer", "base64URLToArrayBuffer", "base64URLToUint8Array"}

\* what the encoding utilities leave alone
nonCodecVars == <<now, coreVars, nativeVars, errVars, webVars, loadVars,
                  snapVars, requireVars, regVars, pluginVars>>

ArrayBufferToBase64Call(b) ==
    /\ codec' = CodecCall("arrayBufferToBase64", ArrayBufferValue(b), <<>>,
                StringValue(ArrayBufferToBase64(b)), FALSE)
    /\ UNCHANGED nonCodecVars

ArrayBufferToBase64URLCall(b) ==
    /\ codec' = CodecCall("arrayBufferToBase64URL", ArrayBufferValue(b), <<>>,
                StringValue(ArrayBufferToBase64URL(b)), FALSE)
    /\ UNCHANGED nonCodecVars

Uint8ArrayToBase64URLCall(v) ==
    /\ codec' = CodecCall("uint8ArrayToBase64URL", v, <<>>,
                StringValue(Uint8ArrayToBase64URL(v)), FALSE)
    /\ UNCHANGED nonCodecVars

\* a decoder called with some string
DecodeCall(fn, text) ==
    /\ codec' = CodecCall(fn, StringValue(text), <<>>, Decode(fn, text), FALSE)
    /\ UNCHANGED nonCodecVars

\* a decoder called with what its encoder has just returned; random keeps
\* the bytes that were encoded
DecodeResultCall ==
    /\ Inverse(codec.fn) # "none"
    /\ codec' = CodecCall(Inverse(codec.fn), codec.out, BytesOf(codec.arg),
                          Decode(Inverse(codec.fn), codec.out.text), TRUE)
    /\ UNCHANGED nonCodecVars

ToArrayBufferCall(data) ==
    /\ codec' = CodecCall("toArrayBuffer", data, <<>>, ToArrayBuffer(data),
                data.kind = "ArrayBuffer")
    /\ UNCHANGED nonCodecVars

GenerateSessionIdCall(random) ==
    /\ codec' = CodecCall("generateSessionId", Undefined, random,
                StringValue(GenerateSessionId(random)), FALSE)
    /\ UNCHANGED nonCodecVars

\* mergeCreateOptions / mergeGetOptions: the challenge of the result
MergeOptionsCall(fn, challenge, random) ==
    /\ codec' = CodecCall(fn, challenge, random,
                MergeChallenge(challenge, random), FALSE)
    /\ UNCHANGED nonCodecVars

\* a first call takes a value that comes from outside
Fresh == codec = NoCodecCall

NextCodec ==
    \/ Fresh /\ \E b \in ByteSeqs : ArrayBufferToBase64Call(b)
    \/ Fresh /\ \E b \in ByteSeqs : ArrayBufferToBase64URLCall(b)
    \/ Fresh /\ \E v \in Views : Uint8ArrayToBase64URLCall(v)
    \/ Fresh /\ \E fn \in Decoders, text \in Texts : DecodeCall(fn, text)
    \/ DecodeResultCall
    \/ Fresh /\ \E data \in {Undefined}
                     \cup {ArrayBufferValue(b) : b \in ByteSeqs}
                     \cup Views \cup {StringValue(t) : t \in Texts} :
                ToArrayBufferCall(data)
    \/ Fresh /\ \E random \in Randoms(SessionIdBytes) :
                GenerateSessionIdCall(random)
    \/ Fresh /\ \E fn \in {"mergeCreateOptions", "mergeGetOptions"},
                   challenge \in ChallengeInputs,
                   random \in Randoms(ChallengeBytes) :
                MergeOptionsCall(fn, challenge, random)

SpecCodec == Init /\ [][NextCodec]_vars

---------------------------------------------------------------------------
(* Plugin registration: index.ts and CapacitorAdapter.getPlugin *)

\* a page with Capacitor on one of its platforms, or a browser without it
Pages == {<<"web", TRUE>>, <<"web", FALSE>>, <<"ios", TRUE>>, <<"android", TRUE>>}

\* the two versions of index.ts: the one that registers while the module is
\* evaluated and the one that queues initializeWebPlugin
Versions == {"sync", "queued"}

\* Capacitor?.isNativePlatform?.() ?? false
IsNative(r) == r.capacitor /\ r.platform # "web"

\* Capacitor?.getPlatform?.() ?? 'web'
GetPlatform(r) == IF r.capacitor THEN r.platform ELSE "web"

\* Capacitor.Plugins['BiometricAuth'] !== undefined
AlreadyRegistered(r) ==
    IF IsNative(r) THEN nativeRegistered ELSE r.webCalls + r.proxyCalls > 0

OnAnyPlatform(r) == TRUE

\* !isNative && platform === 'web'
OnPureWeb(r) == ~IsNative(r) /\ GetPlatform(r) = "web"

\* registerPlugin('BiometricAuth', { web: BiometricAuthPlugin })
RegisterWebPlugin(r) == [r EXCEPT !.webCalls = @ + 1]

\* the registration block of the first version
RegisterAtLoad(r) ==
    IF OnPureWeb(r) /\ ~AlreadyRegistered(r) /\ r.capacitor
    THEN RegisterWebPlugin(r) ELSE r

\* initializeWebPlugin of the second version
InitializeWebPlugin(r) ==
    IF OnPureWeb(r) /\ r.capacitor THEN RegisterWebPlugin(r) ELSE r

\* the page evaluates index.ts
ModuleLoad(version, page) ==
    /\ reg.version = "none"
    /\ LET r == [reg EXCEPT !.platform = page[1], !.capacitor = page[2],
                            !.version = version]
       IN  reg' = IF version = "sync" THEN RegisterAtLoad(r)
                  ELSE [r EXCEPT !.queued = TRUE]
    /\ UNCHANGED <<now, coreVars, nativeVars, errVars, webVars, loadVars,
                   snapVars, requireVars, codecVars, pluginVars>>

\* queueMicrotask(initializeWebPlugin), or the setTimeout in its place
RunInitializeWebPlugin ==
    /\ reg.queued
    /\ reg' = InitializeWebPlugin([reg EXCEPT !.queued = FALSE])
    /\ UNCHANGED <<now, coreVars, nativeVars, errVars, webVars, loadVars,
                   snapVars, requireVars, codecVars, pluginVars>>

\* Capacitor finishes registering the native plugin of a native page
NativePluginsRegistered ==
    /\ reg.version # "none"
    /\ IsNative(reg)
    /\ PluginsRegistered

\* getPlugin(): the flag is set, or the call awaits import('@capacitor/core')
GetPluginStart ==
    /\ reg.version # "none"
    /\ reg.calls < MaxLookups + 1
    /\ reg' = IF pluginInitialized
              THEN [reg EXCEPT !.calls = @ + 1, !.got = "cached"]
              ELSE [reg EXCEPT !.calls = @ + 1, !.lookups = @ + 1,
                               !.got = "pending"]
    /\ UNCHANGED <<now, coreVars, nativeVars, errVars, webVars, loadVars,
                   snapVars, requireVars, codecVars, pluginVars>>

\* the plugin was obtained: both fields are written
Obtained(r, plugin) ==
    /\ reg' = [r EXCEPT !.capacitorPlugin = plugin, !.got = plugin]
    /\ pluginInitialized' = TRUE

\* the lookup threw: the catch wraps the error
NotObtained(r) ==
    /\ reg' = [r EXCEPT !.got = "throws"]
    /\ UNCHANGED pluginInitialized

\* getPlugin() after the import; registers tells whether registerPlugin
\* returns or throws, and fallback which of Plugins.BiometricAuth and
\* window.BiometricAuthPlugin exists
GetPluginComplete(registers, fallback) ==
    /\ reg.lookups > 0
    /\ LET r == [reg EXCEPT !.lookups = @ - 1]
           called == [r EXCEPT !.proxyCalls = @ + 1]
       IN  IF ~reg.capacitor THEN NotObtained(r)
           ELSE IF IsNative(reg)
           THEN IF nativeRegistered THEN Obtained(r, "native")
                ELSE NotObtained(r)
           ELSE IF registers THEN Obtained(called, "proxy")
           ELSE IF fallback # "none" THEN Obtained(called, fallback)
           ELSE NotObtained(called)
    /\ UNCHANGED <<failedAttempts, lockoutEndTime, maxAttempts, lockoutDuration,
                   signCounts, lastEmbedded, nextCredId, prompts,
                   nativeRegistered, nret>>
    /\ UNCHANGED <<now, coreVars, errVars, webVars, loadVars, snapVars,
                   requireVars, codecVars, pluginVars>>

NextRegister ==
    \/ \E version \in Versions, page \in Pages : ModuleLoad(version, page)
    \/ RunInitializeWebPlugin
    \/ NativePluginsRegistered
    \/ GetPluginStart
    \/ \E registers \in BOOLEAN, fallback \in {"none", "legacy", "window"} :
          GetPluginComplete(registers, fallback)

SpecRegister == Init /\ [][NextRegister]_vars

---------------------------------------------------------------------------
(* Properties of the session core *)

LoggedOut(s) ==
    /\ ~s.isAuthenticated
    /\ s.sessionId = 0
    /\ s.lastAuthTime = 0
    /\ s.biometryType = "none"
    /\ s.error = "none"

\* C1: whatever authenticate (overlapping or not), logout, isAuthenticated,
\* deleteCredentials and timer callbacks ran, at most one session-expiry
\* timer is pending.
C1_AtMostOneTimer == Cardinality(timers) <= 1

\* a second session was issued while another authenticate() is still in
\* flight, and exactly its timer is pending
C1_Witness ==
    /\ state.isAuthenticated
    /\ state.sessionId = 2
    /\ inflight > 0
    /\ timers = {[id |-> 2, fireAt |-> state.lastAuthTime + config.sessionDuration]}

\* C2: every successful authenticate() leaves no timer of an earlier session
\* pending and has a logout() scheduled at the configured duration, so a
\* timer that fires on an authenticated state is the timer of that session.
C2_IssueReplacesTimer ==
    [][ /\ (ret'.op = "authenticate" /\ ret'.value = "success") =>
              /\ \A t \in timers' : t.id = state'.sessionId
              /\ (config.sessionDuration > 0
                    /\ config.sessionDuration <= TimeoutMaxSeconds) =>
                    [id |-> state'.sessionId,
                     fireAt |-> now + config.sessionDuration] \in timers'
        /\ (ret'.op = "timer" /\ state.isAuthenticated) =>
              ret'.timer = state.sessionId ]_vars

\* C3: isAuthenticated() returns true only while a session exists and
\* strictly less than the (positive) session duration has elapsed.
C3_TrueOnlyBeforeDuration ==
    (ret.op = "isAuthenticated" /\ ret.value = "true"
        /\ config.sessionDuration > 0) =>
        /\ state.isAuthenticated
        /\ state.lastAuthTime # 0
        /\ now - state.lastAuthTime < config.sessionDuration

C5_LogoutTwice ==
    /\ [](ret.op = "logout" => ~ret.threw)
    /\ [][ (ret.op = "logout" /\ ret'.op = "logout") =>
              /\ state' = state
              /\ sessionTimeoutId' = sessionTimeoutId
              /\ timers' = timers
              /\ ret'.notified = ret.notified ]_vars

\* C6: when logout() has returned, no expiry timer is pending, the state is
\* unauthenticated with sessionId, lastAuthTime, biometryType and error
\* cleared, and every subscribed observer was called with that state.
C6_AfterLogout ==
    (ret.op = "logout" /\ ~ret.threw) =>
        /\ timers = {}
        /\ sessionTimeoutId = 0
        /\ LoggedOut(state)
        /\ \A i \in 1..Len(subscribers) : subscribers[i] \in ret.notified

\* logout() returned with an observer subscribed after a session was issued
C6_Witness ==
    /\ ret.op = "logout"
    /\ ~ret.threw
    /\ ret.notified = {"obs"}
    /\ nextSessionId > 1

\* C10: authenticate() never throws or rejects; it always hands back a
\* result, and a failed result carries an error code.
C10_AuthenticateNeverThrows ==
    ret.op = "authenticate" =>
        /\ ~ret.threw
        /\ ret.value \in {"success", "failure"}
        /\ ret.value = "failure" => ret.code # "none"

\* C19: a call of authenticate() on a supported platform never returns
\* PLATFORM_NOT_SUPPORTED: the call waits for the adapter load started in
\* the constructor.
C19_WaitsForInitialisation ==
    (ret.op = "authenticate" /\ BuiltinAdapter(platform) # "none") =>
        ret.code # "PLATFORM_NOT_SUPPORTED"

\* the latest step called updateState()
Mutated == ret.logout \/ (ret.op = "authenticate" /\ currentAdapter # "none")

\* the subscribed observers, as a set
Subscribed == {subscribers[i] : i \in 1..Len(subscribers)}

\* C20: every state mutation notifies each subscribed observer, and nobody
\* else; an observer is held once however often it subscribed.
C20_ObserversNotifiedOnce ==
    /\ Mutated => ret.notified = Subscribed
    /\ \A i, j \in 1..Len(subscribers) :
          subscribers[i] = subscribers[j] => i = j

\* C32: the session fields of the state are coherent: isAuthenticated is
\* true exactly when sessionId and lastAuthTime are set, also after a failed
\* or cancelled authenticate() made while a session was active.
C32_SessionFieldsCoherent ==
    state.isAuthenticated <=> (state.sessionId # 0 /\ state.lastAuthTime # 0)

\* C33: an expiry timer is pending only while the state is authenticated,
\* whichever of logout, timer, a failed authenticate() or deleteCredentials
\* ended the session and in whatever order overlapping calls completed.
C33_TimerOnlyWhileAuthenticated ==
    timers # {} => state.isAuthenticated

\* what isAuthenticated() would return now
WouldReturnTrue ==
    /\ state.isAuthenticated
    /\ state.lastAuthTime # 0
    /\ (config.sessionDuration > 0 =>
          ~SessionExpired(now - state.lastAuthTime, config.sessionDuration))

\* every timer callback that is due has run
TimersPunctual == \A t \in timers : t.fireAt >= now

\* C34: with its timers run on time, the state is never authenticated at a
\* time when isAuthenticated() would return false, also after configure()
\* changed sessionDuration during the session.
C34_ExpiryAgrees ==
    (TimersPunctual /\ state.isAuthenticated) => WouldReturnTrue

---------------------------------------------------------------------------
(* Properties of the adapter selection *)

\* a custom adapter for key k is the current adapter
CustomSelected(k) == currentAdapter \in {CustomAdapter(k), RegisteredAdapter(k)}

\* a custom adapter for key k is on record
CustomKnown(k) == customAdapters[k] # "none" \/ adapters[k] # "none"

\* C18: once a custom adapter for a platform key is selected, and as long as
\* one is on record for the key, the built-in adapter of that key never
\* becomes the current adapter.
C18_CustomTakesPrecedence ==
    [][\A k \in AdapterKeys :
          (CustomSelected(k) /\ CustomKnown(k)') =>
              currentAdapter' # BuiltinAdapter(k)]_vars

---------------------------------------------------------------------------
(* Properties of the state snapshot *)

\* C21: the object handed out equals the state at that moment, and nothing
\* its holder writes to it changes the core's state.
C21_SnapshotNotLive ==
    [][held' # held =>
          /\ state' = state
          /\ held'.write = "none" => held'.obj = state]_vars

---------------------------------------------------------------------------
(* Properties of requireAuthentication and withAuthentication *)

\* C23: the callback runs only after isAuthenticated() was true or the
\* authenticate() of the call succeeded; a call made on a session past its
\* duration authenticates again; when that authenticate() fails the call
\* throws and does not run the callback.
C23_CallbackOnlyAuthenticated ==
    rret.op # "none" =>
        /\ rret.callback => (rret.checked = "true" \/ rret.auth = "success")
        /\ rret.expired => rret.auth # "none"
        /\ rret.auth = "failure" => (rret.threw /\ ~rret.callback)

---------------------------------------------------------------------------
(* Properties of the encoding utilities *)

\* a decoder was called with the result of its encoder
Decoded == codec.fn \in Decoders /\ codec.same

\* C24: decoding what the matching encoder returned gives back the encoded
\* bytes, for the base64url pair, the base64 pair and the Uint8Array pair
\* (whatever the view's offset).
C24_RoundTrip ==
    Decoded =>
        /\ codec.out.kind # "throws"
        /\ BytesOf(codec.out) = codec.random

\* a view with a non-zero offset was encoded, and the result decoded
C24_Witness ==
    /\ Decoded
    /\ codec.fn = "base64URLToUint8Array"
    /\ Len(codec.random) = 2
    /\ \E i \in 1..Len(codec.arg.text) : codec.arg.text[i] = "-"

\* the bytes a base64url encoder was called with
Encoded ==
    IF codec.fn = "generateSessionId" THEN codec.random ELSE BytesOf(codec.arg)

\* the character of the standard alphabet written in the URL alphabet
URLChar(c) == IF c = "+" THEN "-" ELSE IF c = "/" THEN "_" ELSE c

\* C25: the base64url encoders and generateSessionId() return the standard
\* base64 encoding without its padding, with "-" for "+" and "_" for "/";
\* the result has no "+", "/" or "=" and passes isBase64URL.
C25_URLAlphabetNoPadding ==
    codec.fn \in {"arrayBufferToBase64URL", "uint8ArrayToBase64URL",
                  "generateSessionId"} =>
        LET std == Btoa(Encoded)
            n == Cardinality({i \in 1..Len(std) : std[i] # "="})
            out == codec.out.text
        IN  /\ codec.out.kind = "string"
            /\ Len(out) = n
            /\ \A i \in 1..n : std[i] # "=" /\ out[i] = URLChar(std[i])
            /\ \A i \in 1..Len(out) : out[i] \notin {"+", "/", "="}
            /\ IsBase64URL(out)

\* an encoding that needed padding and both substitutions
C25_Witness ==
    /\ codec.fn = "arrayBufferToBase64URL"
    /\ codec.arg.bytes = <<251, 255>>
    /\ codec.out.text = <<"-", "_", "8">>

\* a string no base64url encoder returns: a character outside the URL
\* alphabet and the padding, or a length of 1 modulo 4
Malformed(text) ==
    \/ \E i \in 1..Len(text) : ~IsBase64URL(<<text[i]>>) /\ text[i] # "="
    \/ Len(Remove(text, "=")) % 4 = 1

\* C26: the base64url decoder accepts every encoding without its padding, and
\* throws on a malformed string instead of returning bytes for it.
C26_DecodeFailsFast ==
    codec.fn \in {"base64URLToArrayBuffer", "base64URLToUint8Array"} =>
        /\ codec.same => codec.out.kind # "throws"
        /\ Malformed(codec.arg.text) => codec.out.kind = "throws"

\* the string is what the encoder returns for some bytes
IsBase64URLString(text) ==
    LET r == Base64URLToArrayBuffer(text)
    IN  r.kind # "throws" /\ ArrayBufferToBase64URL(r.bytes) = text

IsBase64String(text) ==
    LET r == Base64ToArrayBuffer(text)
    IN  r.kind # "throws" /\ ArrayBufferToBase64(r.bytes) = text

\* the conversion C27 describes
Converted(data) ==
    CASE data.kind = "undefined" -> Undefined
      [] data.kind = "ArrayBuffer" -> data
      [] data.kind = "Uint8Array" -> ArrayBufferValue(Viewed(data))
      [] OTHER ->
           IF IsBase64URLString(data.text)
           THEN ArrayBufferValue(DecodeSextets(
                    Remove(ToStandardAlphabet(data.text), "=")))
           ELSE IF IsBase64String(data.text)
           THEN ArrayBufferValue(DecodeSextets(Remove(data.text, "=")))
           ELSE ArrayBufferValue(Utf8(data.text))

\* a value was given: not undefined, and not the empty string
Given(data) == data.kind # "undefined" /\ (data.kind = "string" => Len(data.text) > 0)

\* C27: toArrayBuffer returns a buffer as it is, the viewed bytes of a view,
\* the decoded bytes of a base64url or base64 string, the UTF-8 bytes of any
\* other string and undefined for undefined; a challenge that was given is
\* the challenge of the merged options.
C27_AutoDetect ==
    /\ (codec.fn = "toArrayBuffer" /\ (Given(codec.arg) \/ codec.arg = Undefined)) =>
          /\ codec.out = Converted(codec.arg)
          /\ codec.arg.kind = "ArrayBuffer" => codec.same
    /\ (codec.fn \in {"mergeCreateOptions", "mergeGetOptions"}
        /\ Given(codec.arg)) => codec.out = Converted(codec.arg)

---------------------------------------------------------------------------
(* Properties of the plugin registration *)

\* a native platform: isNativePlatform() is true or the platform is not web
NativePlatform(r) == IsNative(r) \/ GetPlatform(r) # "web"

\* C30: on a native platform registerPlugin('BiometricAuth') is called
\* neither by index.ts nor by getPlugin; the web plugin is registered at most
\* once, and on pure web only; the adapter sets its flag only together with
\* the plugin it obtained, and a lookup that failed leaves the flag unset, so
\* that the next call looks the plugin up again.
C30_NoNativeRegistration ==
    [][/\ NativePlatform(reg') => reg'.webCalls = 0 /\ reg'.proxyCalls = 0
       /\ reg'.webCalls <= 1
       /\ reg'.webCalls > 0 => OnPureWeb(reg')
       /\ pluginInitialized' => reg'.capacitorPlugin # "null"
       /\ (reg'.got = "throws" /\ reg.got # "throws") =>
             (pluginInitialized' = pluginInitialized
              /\ reg'.capacitorPlugin = reg.capacitorPlugin)
       /\ (reg'.calls > reg.calls /\ ~pluginInitialized) =>
             reg'.got = "pending"]_vars

\* on a native page whose index.ts has run initializeWebPlugin, getPlugin
\* was called twice and the native plugin was obtained and cached
C30_Witness ==
    /\ IsNative(reg)
    /\ reg.version = "queued"
    /\ ~reg.queued
    /\ reg.calls = 2
    /\ reg.got = "native"
    /\ pluginInitialized
    /\ reg.webCalls = 0 /\ reg.proxyCalls = 0

---------------------------------------------------------------------------
(* Properties of the native path *)

\* a step in which a prompt's completion handler ran
PromptCompleted == BagCardinality(prompts') = BagCardinality(prompts) - 1

\* a step in which authenticate() was called
AuthenticateCalled ==
    /\ nret'.op = "authenticate"
    /\ nret'.outcome = "none"
    /\ BagCardinality(prompts') >= BagCardinality(prompts)

\* C7: the failure that reaches maxAttempts locks the state; authenticate()
\* called before the lockout end returns the failure LOCKED_OUT at once and
\* shows no prompt; a call made at or after the lockout end shows the prompt;
\* a success sets the failure counter to 0.
C7_LockoutRejects ==
    [][ /\ (PromptCompleted /\ nret'.value = "failure"
              /\ failedAttempts + 1 >= maxAttempts)
            => (lockoutEndTime' # 0 /\ now < lockoutEndTime')
        /\ (AuthenticateCalled /\ nativeRegistered /\ IsLockedOut)
            => /\ nret'.value = "failure"
               /\ nret'.code = "LOCKED_OUT"
               /\ ~nret'.prompted
               /\ prompts' = prompts
        /\ (AuthenticateCalled /\ nativeRegistered /\ lockoutEndTime # 0
              /\ ~IsLockedOut)
            => nret'.prompted
        /\ (PromptCompleted /\ nret'.value = "success")
            => failedAttempts' = 0
      ]_vars

\* C8: a prompt cancelled by the user is reported as USER_CANCELLED and one
\* cancelled by the system as SYSTEM_CANCELLED; the call fails, and neither
\* the failure counter nor the lockout end changes.
C8_CancelNotCounted ==
    [][ (PromptCompleted /\ nret'.op = "authenticate"
           /\ nret'.outcome \in {"userCancel", "systemCancel"})
            => /\ nret'.value = "failure"
               /\ nret'.code = (IF nret'.outcome = "userCancel"
                                THEN "USER_CANCELLED" ELSE "SYSTEM_CANCELLED")
               /\ failedAttempts' = failedAttempts
               /\ lockoutEndTime' = lockoutEndTime
      ]_vars

\* C9: no sign counter ever decreases; a successful prompt embeds the
\* counter its credential had before the step and leaves it one higher, the
\* embedded value is above every value embedded for the credential before,
\* and the other credentials' counters stay as they are.
C9_SignCounterIncreases ==
    [][ /\ \A c \in CredIds : signCounts'[c] >= signCounts[c]
        /\ (PromptCompleted /\ nret'.value = "success")
            => /\ nret'.signCount = signCounts[nret'.cred]
               /\ signCounts'[nret'.cred] = signCounts[nret'.cred] + 1
               /\ nret'.signCount > lastEmbedded[nret'.cred]
               /\ \A c \in CredIds \ {nret'.cred} :
                      signCounts'[c] = signCounts[c]
      ]_vars

\* a third use of a credential completed while another prompt for the same
\* credential is still shown
C9_Witness ==
    /\ nret.op = "authenticate"
    /\ nret.value = "success"
    /\ nret.signCount = 2
    /\ BagIn([op |-> "authenticate", stored |-> nret.cred], prompts)

---------------------------------------------------------------------------
(* Properties of the error mapping *)

Taxonomy ==
    {"USER_CANCELLED", "SYSTEM_CANCELLED", "AUTHENTICATION_FAILED",
     "NOT_AVAILABLE", "NOT_ENROLLED", "LOCKED_OUT", "TIMEOUT",
     "INVALID_CONTEXT", "PLATFORM_NOT_SUPPORTED", "UNKNOWN"}

\* names, codes and phrases that some mapper knows
KnownNames ==
    {"NotAllowedError", "AbortError", "SecurityError", "InvalidStateError",
     "NotSupportedError", "TimeoutError", "ConstraintError"}

KnownCodes ==
    {"BIOMETRIC_UNAVAILABLE", "UNAVAILABLE", "USER_CANCELLED", "CANCELLED",
     "USER_CANCEL", "AUTHENTICATION_FAILED", "FAILED", "TIMEOUT", "LOCKOUT",
     "NOT_ENROLLED"}

\* an error that matches no pattern of any mapper
Unmatched(e) ==
    /\ e.name \notin KnownNames
    /\ e.code \notin KnownCodes
    /\ e.hits = {}

\* C11: the code of every error mapped by the core, an adapter or a helper
\* of utils/error-handler is one of the ten codes of the taxonomy.
C11_ClosedTaxonomy ==
    mapped.path \in {"createErrorResult", "CapacitorAdapter.mapError",
                     "BiometricAuthCore.authenticate"}
        => mapped.code \in Taxonomy

\* C12: on every mapping path, the web plugin's handler included, an error
\* that matches no pattern gets the code UNKNOWN, and the details of every
\* mapped error are the error that was mapped.
C12_UnknownKeepsDetails ==
    mapped.path \notin {"none", "thrown", "isUserCancellation", "isTimeout"}
        => /\ Unmatched(mapped.error) => mapped.code = "UNKNOWN"
           /\ mapped.details = mapped.error

\* mapWebAuthnError was applied: createErrorResult without a platform
ByMapWebAuthnError ==
    mapped.path = "createErrorResult" /\ mapped.platform = "none"

\* the codes mapGenericError gives for a message that matches a phrase
MessageCodes ==
    {"USER_CANCELLED", "TIMEOUT", "BIOMETRIC_UNAVAILABLE",
     "PLATFORM_NOT_SUPPORTED", "NOT_ENROLLED", "LOCKED_OUT"}

Documented(c) ==
    CASE c \in {"ERROR_USER_CANCELED", "ERROR_NEGATIVE_BUTTON"} -> "USER_CANCELLED"
      [] c = "ERROR_NO_BIOMETRICS" -> "NOT_ENROLLED"
      [] c \in {"ERROR_HW_NOT_PRESENT", "ERROR_HW_UNAVAILABLE"} -> "NOT_AVAILABLE"
      [] c = "ERROR_LOCKOUT" -> "LOCKED_OUT"
      [] OTHER -> "none"

\* the message of the error is the constant c
Carries(e, c) == e.hits = Closure({ToLowerCase(c)})

\* mapNativeError was applied: createErrorResult with a platform on an Error
ByMapNativeError ==
    /\ mapped.path = "createErrorResult"
    /\ mapped.platform # "none"
    /\ mapped.error.kind = "Error"

\* C29: on android an error whose message is a BiometricPrompt constant gets
\* the code documented for the constant; on a platform without a block of
\* its own the code is the one of the generic message mapping.
C29_AndroidConstants ==
    ByMapNativeError =>
        /\ mapped.platform = "android" =>
              \A c \in AndroidConstants :
                  Carries(mapped.error, c) => mapped.code = Documented(c)
        /\ mapped.platform = "unknown" =>
              mapped.code = MapGenericError(mapped.error).code

\* C37: the classification helpers agree with the error mapper: for every
\* error isUserCancellation is true exactly when mapWebAuthnError gives
\* USER_CANCELLED, and isTimeout is true exactly when it gives TIMEOUT
C37_HelpersAgree ==
    /\ mapped.path = "isUserCancellation" =>
          (mapped.code = "true" <=>
              MapWebAuthnError(mapped.error).code = "USER_CANCELLED")
    /\ mapped.path = "isTimeout" =>
          (mapped.code = "true" <=>
              MapWebAuthnError(mapped.error).code = "TIMEOUT")

\* C38: the two web error paths classify a browser exception alike: for
\* every exception name the code of handleWebAuthnError, normalised with
\* normalizeErrorCode, is the code mapDOMException gives
C38_WebPathsAgree ==
    (mapped.path = "handleWebAuthnError" /\ mapped.error.kind = "DOMException")
        => NormalizeErrorCode(mapped.code) = MapDOMException(mapped.error).code

---------------------------------------------------------------------------
(* Properties of the credential store and the routing *)

\* an authenticate() call has returned
AuthenticateReturned == wret.op = "authenticate" /\ wret.value # "none"

\* C13: an authenticate() that found stored credentials for its scope made
\* one platform call, the assertion; one that found none and was given no
\* assertion options made one platform call, the creation.
C13_AssertionIffStored ==
    AuthenticateReturned
        => /\ wret.hadCreds => wret.calls = {"get"}
           /\ (~wret.hadCreds /\ ~wret.getOpts) => wret.calls = {"create"}

\* C14: the web plugin's authenticate() given webAuthnOptions.get while the
\* scope has no stored credentials fails without any platform call; given no
\* such options and no stored credentials it makes the creation call, with
\* and without saveCredentials.
C14_NoCredentialsError ==
    (AuthenticateReturned /\ wret.api = "plugin" /\ ~wret.hadCreds)
        => IF wret.getOpts
           THEN wret.calls = {} /\ wret.value = "failure"
           ELSE wret.calls = {"create"}

\* the credentials of the relying party rp that the web plugin has stored
\* for the user, or for any user when the call names none
StoredFor(rp, user) ==
    {c \in 1..(nextWebCred - 1) :
        /\ authenticator[c] = rp
        /\ \E u \in UserNames :
               /\ user \in {u, "none"}
               /\ Has(GetStoredCredentialIds(localStorage, u), c)}

\* C15: a successful register() leaves its credential in the list of its
\* user; an authenticate() of the web plugin for a relying party that has a
\* stored credential (of the user it names, if it names one) makes the
\* assertion call only.
C15_RegisterThenAssert ==
    /\ (wret.api = "plugin" /\ wret.op = "register" /\ wret.value = "success")
        => Has(GetStoredCredentialIds(localStorage, wret.user), wret.cred)
    /\ (AuthenticateReturned /\ wret.api = "plugin"
          /\ StoredFor(wret.rpId, wret.user) \ {wret.cred} # {})
        => wret.calls = {"get"}

\* C16: every credential in the allow list of an assertion call was created
\* for the relying party of that call.
C16_ScopedByRelyingParty ==
    wcall.call = "get"
        => \A i \in 1..Len(wcall.allow) :
               authenticator[wcall.allow[i]] = wcall.rpId

\* the list after storing c
Stored(ids, c) == IF Has(ids, c) THEN ids ELSE Append(ids, c)

NoDuplicates(ids) ==
    \A i, j \in 1..Len(ids) : ids[i] = ids[j] => i = j

\* C17: no list holds an identifier twice; storing c for a user appends c to
\* that user's list unless the list holds it already, and leaves the list of
\* every other user, the user-less one included, and WebAdapter's list as
\* they were; WebAdapter's save does the same to WebAdapter's list.
C17_InsertionOrder ==
    /\ [](\A k \in StorageKeys : NoDuplicates(localStorage[k]))
    /\ [][ /\ wret'.op = "storeCredentialId"
              => /\ \A u \in UserNames :
                       GetStoredCredentialIds(localStorage', u) =
                         IF u = wret'.user
                         THEN Stored(GetStoredCredentialIds(localStorage, u),
                                     wret'.cred)
                         ELSE GetStoredCredentialIds(localStorage, u)
                 /\ localStorage'[AdapterKey] = localStorage[AdapterKey]
           /\ wret'.op = "saveCredentialId"
              => /\ localStorage'[AdapterKey] =
                       Stored(localStorage[AdapterKey], wret'.cred)
                 /\ \A u \in UserNames :
                       GetStoredCredentialIds(localStorage', u) =
                         GetStoredCredentialIds(localStorage, u)
         ]_vars

\* the store an API reads its credential ids from holds none
StoreEmpty(st, api) ==
    IF api = "adapter" THEN Len(st[AdapterKey]) = 0
    ELSE \A k \in PluginKeys : Len(st[k]) = 0

\* C22: when deleteCredentials() has completed, the store holds no credential
\* id for any user, the next authenticate() goes to registration, and the
\* core is logged out with no expiry timer pending.
C22_DeleteLeavesNothing ==
    [][/\ wret'.op = "deleteCredentials" => StoreEmpty(localStorage', wret'.api)
       /\ (wret.op = "deleteCredentials" /\ wcall = NoCall
           /\ wcall'.op = "authenticate" /\ wcall'.api = wret.api) =>
             wcall'.call = "create"
       /\ (ret'.op = "deleteCredentials" /\ ret'.logout /\ ~ret'.threw) =>
             (timers' = {} /\ sessionTimeoutId' = 0 /\ LoggedOut(state'))]_vars


---------------------------------------------------------------------------
(* Availability checks and the sessions of BiometricAuthWeb *)

\* what the page offers to an availability check: whether
\* window.PublicKeyCredential exists and how
\* isUserVerifyingPlatformAuthenticatorAvailable() settles
Probes ==
    {[pkc |-> FALSE, uvpaa |-> "none"]} \cup
    [pkc : {TRUE}, uvpaa : {"true", "false", "throws"}]

\* BiometricAuthWeb.isAvailable
IsAvailable(p) ==
    IF ~p.pkc THEN [available |-> FALSE, reason |-> "notSupported"]
    ELSE IF p.uvpaa = "true" THEN [available |-> TRUE, reason |-> "none"]
    ELSE IF p.uvpaa = "false" THEN [available |-> FALSE, reason |-> "noHardware"]
    ELSE [available |-> FALSE, reason |-> "hardwareUnavailable"]

\* WebAdapter.isAvailable
AdapterIsAvailable(p) == p.pkc /\ p.uvpaa = "true"

\* ElectronAdapter.checkWindowsHello: its result and the cache it leaves
CheckWindowsHello(cache, p) ==
    IF cache # "null" THEN cache
    ELSE IF p.pkc /\ p.uvpaa = "true" THEN "true" ELSE "false"

\* process.platform of an Electron process and what
\* systemPreferences.canPromptTouchID() gives there
OsPlatforms == {"darwin", "win32", "linux"}

\* ElectronAdapter.isAvailable
ElectronIsAvailable(os, touchId, cache, p) ==
    IF os = "darwin" THEN touchId
    ELSE IF os = "win32" THEN CheckWindowsHello(cache, p) = "true"
    ELSE FALSE

\* the test authenticate() and register() make on the check's result
UnavailableIgnored(available) == FALSE
Unavailable(available) == ~available

\* the latest step was no authenticate(), register() or configure()
Quiet(pl) == [pl EXCEPT !.reported = "none", !.issued = 0, !.threw = FALSE]

\* the latest step made an availability check
Checked(pl, api, available) ==
    [Quiet(pl) EXCEPT
        !.api = api,
        !.reported = IF available THEN "available" ELSE "unavailable"]

\* the application calls one API only
Calls(api) == webPlugin.api \in {"none", api}

\* an API call that returns before any platform call
Refused(api, op, user, code) ==
    WebRet(WebCall(api, op, "none", "none", user, <<>>, FALSE, FALSE, {}),
           "failure", code, 0)

\* BiometricAuthWeb.authenticate up to its platform call: p is what its own
\* availability check finds, again what the check of the register() it may
\* fall through to finds
SessionAuthenticate(o, p, again) ==
    /\ wcall = NoCall
    /\ Calls("plugin")
    /\ LET call == AuthenticateCall(o)
           first == IsAvailable(p).available
           second == call.call = "create" => IsAvailable(again).available
       IN  /\ IF Unavailable(first) \/ Unavailable(second)
              THEN /\ wcall' = NoCall
                   /\ wret' = Refused("plugin", "authenticate", o.user,
                                      "notAvailable")
              ELSE /\ wcall' = call
                   /\ wret' = WIdle
           /\ webPlugin' = Checked(webPlugin, "plugin", first /\ second)
    /\ UNCHANGED <<localStorage, authenticator, nextWebCred>>
    /\ UNCHANGED <<now, coreVars, nativeVars, errVars, loadVars,
                   snapVars, requireVars, codecVars, regVars>>

\* BiometricAuthWeb.register up to navigator.credentials.create
SessionRegister(o, p) ==
    /\ wcall = NoCall
    /\ Calls("plugin")
    /\ o.get = "absent"
    /\ LET ids == GetStoredCredentialIds(localStorage, o.user)
           first == IsAvailable(p).available
       IN  /\ IF Unavailable(first)
              THEN /\ wcall' = NoCall
                   /\ wret' = Refused("plugin", "register", o.user,
                                      "notAvailable")
              ELSE /\ wcall' = RegisterCall("register", o, Len(ids) > 0)
                   /\ wret' = WIdle
           /\ webPlugin' = Checked(webPlugin, "plugin", first)
    /\ UNCHANGED <<localStorage, authenticator, nextWebCred>>
    /\ UNCHANGED <<now, coreVars, nativeVars, errVars, loadVars,
                   snapVars, requireVars, codecVars, regVars>>

\* WebAdapter.authenticate up to its first platform call
SessionAdapterAuthenticate(rp, p) ==
    /\ wcall = NoCall
    /\ Calls("adapter")
    /\ LET first == AdapterIsAvailable(p)
       IN  /\ IF Unavailable(first)
              THEN /\ wcall' = NoCall
                   /\ wret' = Refused("adapter", "authenticate", "none",
                                      "BIOMETRIC_UNAVAILABLE")
              ELSE /\ wcall' = AdapterCall(rp)
                   /\ wret' = WIdle
           /\ webPlugin' = Checked(webPlugin, "adapter", first)
    /\ UNCHANGED <<localStorage, authenticator, nextWebCred>>
    /\ UNCHANGED <<now, coreVars, nativeVars, errVars, loadVars,
                   snapVars, requireVars, codecVars, regVars>>

\* the platform call ElectronAdapter.authenticate makes once biometrics are
\* available
ElectronCall(os) ==
    WebCall("electron", "authenticate",
            IF os = "darwin" THEN "promptTouchID" ELSE "get", Hostname,
            "none", <<>>, FALSE, FALSE,
            {IF os = "darwin" THEN "promptTouchID" ELSE "get"})

\* ElectronAdapter.authenticate up to its prompt
ElectronAuthenticate(os, touchId, p) ==
    /\ wcall = NoCall
    /\ Calls("electron")
    /\ LET cache == webPlugin.windowsHelloAvailable
           first == ElectronIsAvailable(os, touchId, cache, p)
       IN  /\ IF Unavailable(first)
              THEN /\ wcall' = NoCall
                   /\ wret' = Refused("electron", "authenticate", "none",
                                      "BIOMETRIC_UNAVAILABLE")
              ELSE /\ wcall' = ElectronCall(os)
                   /\ wret' = WIdle
           /\ webPlugin' =
                [Checked(webPlugin, "electron", first) EXCEPT
                    !.windowsHelloAvailable =
                        IF os = "win32" THEN CheckWindowsHello(cache, p)
                        ELSE cache]
    /\ UNCHANGED <<localStorage, authenticator, nextWebCred>>
    /\ UNCHANGED <<now, coreVars, nativeVars, errVars, loadVars,
                   snapVars, requireVars, codecVars, regVars>>

\* promptTouchID or the Windows Hello assertion settles: promptTouchID
\* resolves or rejects, the assertion may also resolve with null
ElectronSettles(outcome) ==
    /\ wcall.api = "electron"
    /\ wcall.call = "promptTouchID" => outcome # "null"
    /\ wret' = IF outcome = "credential"
               THEN WebRet(wcall, "success", "none", 0)
               ELSE WebRet(wcall, "failure",
                           IF outcome = "null" THEN "AUTHENTICATION_FAILED"
                           ELSE CreateErrorResult(
                                    ErrorValue("DOMException", outcome,
                                               "none", {}),
                                    IF wcall.call = "get" THEN "windows"
                                    ELSE "electron").code,
                           0)
    /\ wcall' = NoCall
    /\ webPlugin' = Quiet(webPlugin)
    /\ UNCHANGED <<localStorage, authenticator, nextWebCred>>
    /\ UNCHANGED <<now, coreVars, nativeVars, errVars, loadVars,
                   snapVars, requireVars, codecVars, regVars>>

\* cleanupExpiredSessions at time t
CleanupExpiredSessions(ss, t) == {s \in ss : ~(s.expiresAt < t)}

\* the seconds a new session is given
EffectiveDuration(d) == IF d # 0 THEN d ELSE FallbackSessionDuration

\* a successful authenticate() or register() stores its session
StoreSession(pl) ==
    LET session == [id |-> pl.nextSession,
                    expiresAt |-> now + EffectiveDuration(pl.sessionDuration)]
    IN  [Quiet(pl) EXCEPT
            !.sessions = CleanupExpiredSessions(pl.sessions \cup {session}, now),
            !.nextSession = @ + 1,
            !.issued = session.id]

\* navigator.credentials.get settles for BiometricAuthWeb or WebAdapter
SessionGetSettles(outcome) ==
    /\ wcall.api \in {"plugin", "adapter"}
    /\ outcome = "credential" /\ wcall.api = "plugin" =>
           webPlugin.nextSession <= MaxWebSessions
    /\ GetResolves(outcome)
    /\ webPlugin' = IF wcall.api = "plugin" /\ wret'.value = "success"
                 THEN StoreSession(webPlugin) ELSE Quiet(webPlugin)
    /\ UNCHANGED <<now, coreVars, nativeVars, errVars, loadVars,
                   snapVars, requireVars, codecVars, regVars>>

\* navigator.credentials.create settles for BiometricAuthWeb or WebAdapter
SessionCreateSettles(outcome) ==
    /\ wcall.api \in {"plugin", "adapter"}
    /\ outcome = "credential" /\ wcall.api = "plugin" =>
           webPlugin.nextSession <= MaxWebSessions
    /\ CreateResolves(outcome)
    /\ webPlugin' = IF wcall.api = "plugin" /\ wret'.value = "success"
                 THEN StoreSession(webPlugin) ELSE Quiet(webPlugin)
    /\ UNCHANGED <<now, coreVars, nativeVars, errVars, loadVars,
                   snapVars, requireVars, codecVars, regVars>>

\* the values configure() may receive as config.sessionDuration
WebDurations == {-1, 0, 2}

\* BiometricAuthWeb.configure({sessionDuration: d})
WebConfigure(d) ==
    /\ Calls("plugin")
    /\ webPlugin' = [Quiet(webPlugin) EXCEPT !.sessionDuration = d,
                                       !.threw = (d # 0 /\ d < 0)]
    /\ wret' = [WIdle EXCEPT !.api = "plugin", !.op = "configure"]
    /\ UNCHANGED <<localStorage, authenticator, nextWebCred, wcall>>
    /\ UNCHANGED <<now, coreVars, nativeVars, errVars, loadVars,
                   snapVars, requireVars, codecVars, regVars>>

\* BiometricAuthWeb.deleteCredentials()
SessionDeleteCredentials ==
    /\ Calls("plugin")
    /\ webPlugin' = [Quiet(webPlugin) EXCEPT !.sessions = {}]
    /\ localStorage' = RemoveItems(localStorage, PluginKeys)
    /\ wret' = [WIdle EXCEPT !.api = "plugin", !.op = "deleteCredentials"]
    /\ UNCHANGED <<authenticator, nextWebCred, wcall>>
    /\ UNCHANGED <<now, coreVars, nativeVars, errVars, loadVars,
                   snapVars, requireVars, codecVars, regVars>>

\* the clock advances
SessionTick ==
    /\ now < MaxTime
    /\ now' = now + 1
    /\ webPlugin' = Quiet(webPlugin)
    /\ UNCHANGED <<coreVars, nativeVars, errVars, webVars, loadVars,
                   snapVars, requireVars, codecVars, regVars>>

\* the options the calls of this part are made with
SessionOptions ==
    {o \in WebOptions : o.user = "none" /\ o.rp = "none" /\ o.get # Hostname}

\* the availability results that matter to a call
Again(o, p) == IF AuthenticateCall(o).call = "create" THEN Probes ELSE {p}
ElectronProbes(os) == IF os = "win32" THEN Probes ELSE {CHOOSE p \in Probes : ~p.pkc}

\* the calls that check availability, their prompts and deleteCredentials()
NextAvailability ==
    \/ \E o \in SessionOptions, p \in Probes : \E again \in Again(o, p) :
           SessionAuthenticate(o, p, again)
    \/ \E o \in SessionOptions, p \in Probes : SessionRegister(o, p)
    \/ \E p \in Probes : SessionAdapterAuthenticate("none", p)
    \/ \E os \in OsPlatforms, touchId \in BOOLEAN :
           \E p \in ElectronProbes(os) : ElectronAuthenticate(os, touchId, p)
    \/ \E outcome \in PlatformOutcomes : ElectronSettles(outcome)
    \/ \E outcome \in PlatformOutcomes : SessionGetSettles(outcome)
    \/ \E outcome \in PlatformOutcomes : SessionCreateSettles(outcome)
    \/ SessionDeleteCredentials

SpecAvailability == Init /\ [][NextAvailability]_vars

\* the same with configure() and the passing of time
NextSession ==
    \/ NextAvailability
    \/ \E d \in WebDurations : WebConfigure(d)
    \/ SessionTick

SpecSession == Init /\ [][NextSession]_vars

---------------------------------------------------------------------------
(* Properties of the availability checks and the web sessions *)

\* the codes that say biometrics are unavailable
UnavailableCodes == {"notAvailable", "BIOMETRIC_UNAVAILABLE"}

\* C31: on the web and Electron paths authenticate() and register() check
\* availability first: when the check reports unavailable the call returns a
\* failure with an unavailable code, no platform prompt is made
\* (navigator.credentials.get/create, promptTouchID), and the stored
\* credentials and the sessions are left as they were
C31_UnavailableRefused ==
    [][webPlugin'.reported = "unavailable" =>
          /\ wret'.value = "failure"
          /\ wret'.code \in UnavailableCodes
          /\ wret'.calls = {}
          /\ wcall' = NoCall
          /\ localStorage' = localStorage
          /\ authenticator' = authenticator
          /\ webPlugin'.sessions = webPlugin.sessions]_vars

\* authenticate() of BiometricAuthWeb was refused as unavailable while a
\* credential is stored and a session is held
C31_Witness ==
    /\ webPlugin.reported = "unavailable"
    /\ wret.api = "plugin" /\ wret.op = "authenticate"
    /\ wret.value = "failure"
    /\ Len(localStorage[StorageKey("none")]) > 0
    /\ webPlugin.sessions # {}

\* C35: BiometricAuthWeb.configure() rejects a negative sessionDuration and
\* leaves the configuration unchanged in that case, so that sessions issued
\* afterwards still use the duration in force before the call
C35_RejectedConfigureKeepsDuration ==
    [][webPlugin'.threw =>
          webPlugin'.sessionDuration = webPlugin.sessionDuration]_vars

\* C36: after every successful authenticate() or register() of
\* BiometricAuthWeb the returned sessionId is a key of the sessions map with
\* expiresAt = now + sessionDuration, and the map holds no session whose
\* expiresAt is earlier than now; deleteCredentials() empties the map
C36_SessionStored ==
    /\ webPlugin.issued # 0 =>
         /\ \E s \in webPlugin.sessions :
               /\ s.id = webPlugin.issued
               /\ s.expiresAt = now + webPlugin.sessionDuration
         /\ \A s \in webPlugin.sessions : ~(s.expiresAt < now)
    /\ wret.api = "plugin" /\ wret.op = "deleteCredentials" =>
         webPlugin.sessions = {}

====
